---- MODULE Spec2Model ----
(***************************************************************************)
(* Session orchestrator of the FeGG API server (src/server/api): the       *)
(* send_message / stream_events handlers of routers/agent.py, the session  *)
(* handlers of routers/sessions.py, the two SandboxManager instances       *)
(* (services/agent_runner.py and main.py) and the store rows they write.   *)
(* Handlers are coroutines on one event loop: a step of the model runs a   *)
(* handler from one suspension point (await, yield) to the next.           *)
(***************************************************************************)
EXTENDS Integers, Sequences, FiniteSets, TLC

\* Authenticated users, and those of them that create sessions: u2 owns no
\* session and is the caller of the requests of a non-owner.
Users == {"u1", "u2"}
Owners == {"u1"}
SessionIds == {"s1"}
\* The ids the store can hold: a second session exists only in the runs of
\* the two-session specification.
AllSessionIds == {"s1", "s2"}
Requests == {1, 2}
Contents == {"hi"}
Titles == {"t1"}

\* Bound on the user messages accepted over a run (rejected ones are free).
MaxMessages == 2

\* Bound on the sandboxes the provider hands out in a run of the manager.
MaxSandboxes == 3

\* SQL NULL / Python None of the integer-coded columns (sandbox id, URL).
Null == 0


VARIABLES
    db_sessions,     \* sessions table: session id -> row (NoRow: no such row)
    db_messages,     \* messages table: session id -> its rows in id order
    pending,         \* routers/agent.py _pending_messages
    runner_mgr,      \* agent_runner._sandbox_manager._sandboxes: user -> sandbox id
    app_mgr,         \* app.state.sandbox_manager._sandboxes: user -> sandbox id
    sbx_live,        \* provider side: sandboxes created and not killed
    sbx_next,        \* provider side: the next sandbox id handed out
    req,             \* in-flight request handlers / response generators
    last,            \* the HTTP response the step just taken returned, if any
    sbx_log,         \* provider side: per sandbox id, its user and the kill calls
    fs,              \* one FSTools instance: its FileCache and its backend's files
    ex,              \* one AsyncProcessExecutor: its CommandLogStore and processes
    turn,            \* the event pipeline of one agent turn (generate's event loop)
    out,             \* one command of the executor: its CommandLog and its result
    det,             \* the URL detector on the output of background commands
    mgr_call,        \* the last destroy asked of the runner's manager, and its answer
    hist,            \* one session's messages and the history its turns hand to the agent
    life             \* one CommandLog at a time, with the coroutines that write it

\* The components below the orchestrator, which its handlers do not touch.
lib_vars == <<fs, ex, turn, out, det, mgr_call, hist, life>>

\* The orchestrator, the sandbox managers and the provider.
orch_vars == <<db_sessions, db_messages, pending, runner_mgr, app_mgr,
               sbx_live, sbx_next, req, last, sbx_log>>

vars == <<db_sessions, db_messages, pending, runner_mgr, app_mgr,
          sbx_live, sbx_next, req, last, sbx_log, fs, ex, turn, out,
          det, mgr_call, hist, life>>

NoRow == [user_id |-> "none", status |-> "none", sandbox_id |-> Null,
          preview_url |-> Null, title |-> "none", last_activity |-> "none"]

NoSlot == [user_id |-> "none", content |-> "none", needs_sandbox |-> FALSE]

NoResp == [code |-> 0, detail |-> "none"]

Idle == [kind |-> "none", user |-> "none", sid |-> "none", pc |-> "idle",
         content |-> "none", needs_sandbox |-> FALSE,
         sandbox_id |-> Null, preview_url |-> Null, events |-> <<>>,
         has_output |-> FALSE, failed |-> "none"]

NoLast == NoResp

----------------------------------------------------------------------------
(* Pure helpers *)

HTTPException(code, detail) == [code |-> code, detail |-> detail]

Ok(detail) == [code |-> 200, detail |-> detail]

\* FindSession without the user_id condition of the WHERE clause.
FindSessionAnyUser(rows, s, u) == rows[s]

\* select(Session).where(Session.id == session_id, Session.user_id == user_id)
\* .scalar_one_or_none()
FindSession(rows, s, u) ==
    IF rows[s] # NoRow /\ rows[s].user_id = u THEN rows[s] ELSE NoRow

\* SendVerdict without the busy check of line 50.
SendVerdictNoBusy(status) ==
    IF status \notin {"pending", "ready", "busy"}
    THEN HTTPException(400, "Session not ready: " \o status)
    ELSE NoResp

\* The status checks of send_message: the error raised, NoResp when none is.
SendVerdict(status) ==
    IF status = "busy" THEN HTTPException(409, "Session is busy")
    ELSE IF status \notin {"pending", "ready"}
         THEN HTTPException(400, "Session not ready: " \o status)
         ELSE NoResp

\* Column last_activity: default/onupdate=datetime.utcnow, and the explicit
\* assignments of lines 62 and 221. A timestamp is known by the handler whose
\* INSERT or UPDATE of the row stamped it.
Touch(row, handler) == [row EXCEPT !.last_activity = handler]

\* Number of rows of role "user" in the messages table.
UserMessages ==
    Cardinality(UNION {{<<s, i>> : i \in {j \in 1..Len(db_messages[s]) :
                                              db_messages[s][j].role = "user"}} :
                       s \in AllSessionIds})

AcceptedInFlight == {r \in Requests : req[r].pc = "send_commit"}

\* SandboxManager.destroy: pop the mapping, kill the provider sandbox.
MgrDestroy(mgr, u) == [mgr EXCEPT ![u] = Null]

LiveAfterDestroy(mgr, live, u) == live \ {mgr[u]}

\* LogAfterDestroy of a manager that forgets the sandbox without killing it.
LogAfterDestroySkip(mgr, log, u) == log

\* SandboxManager.destroy, line 102: one more sandbox.kill() on the sandbox
\* that was mapped, none when the user had none.
LogAfterDestroy(mgr, log, u) ==
    IF mgr[u] = Null THEN log ELSE [log EXCEPT ![mgr[u]].kills = @ + 1]

\* No destroy was asked of the manager yet.
NoMgrCall ==
    [op |-> "none", user |-> "none", before |-> [u \in Users |-> Null],
     after |-> [u \in Users |-> Null], raised |-> FALSE, returned |-> FALSE]

\* Sandbox.create answered: the provider knows one more sandbox.
LogCreate(log, u) == Append(log, [user |-> u, kills |-> 0])

----------------------------------------------------------------------------
(* The file tools (src/server/tools/backend_tools.py): one FSTools instance
   over a backend, with its FileCache. A path is the sequence of its
   characters. The cache is the sequence of its entries in access order,
   oldest first: _cache and _access_order hold the same keys after every
   FileCache method. *)

\* Capacity of the FileCache (max_entries, 50 in the code).
FsMaxEntries == 2

FileContents == {"", "x"}

\* The spellings handed to the tools: a, ./a, a/, .a, ../a, b, /b and "."
Paths ==
    { <<"a">>, <<".", "/", "a">>, <<"a", "/">>, <<".", "a">>,
      <<".", ".", "/", "a">>, <<"b">>, <<"/", "b">>, <<".">> }

\* str.lstrip(chars) and str.rstrip(chars): drop every leading (trailing)
\* character that is in the set chars.
RECURSIVE lstrip(_, _)
lstrip(path, chars) ==
    IF path # <<>> /\ Head(path) \in chars
    THEN lstrip(Tail(path), chars)
    ELSE path

RECURSIVE rstrip(_, _)
rstrip(path, chars) ==
    IF path # <<>> /\ path[Len(path)] \in chars
    THEN rstrip(SubSeq(path, 1, Len(path) - 1), chars)
    ELSE path

\* FSTools._normalize_path: path.lstrip("./").rstrip("/")
normalize_path(path) == rstrip(lstrip(path, {".", "/"}), {"/"})

\* The components of a path between its slashes.
RECURSIVE split(_, _)
split(path, cur) ==
    IF path = <<>> THEN <<cur>>
    ELSE IF Head(path) = "/" THEN <<cur>> \o split(Tail(path), <<>>)
    ELSE split(Tail(path), Append(cur, Head(path)))

Outside == <<<<"!">>>>

\* Path.resolve() below the root: "" and "." components drop out, ".."
\* climbs, and a path that leaves the root is Outside.
RECURSIVE walk(_, _)
walk(parts, at) ==
    IF parts = <<>> THEN at
    ELSE IF Head(parts) \in {<<>>, <<".">>} THEN walk(Tail(parts), at)
    ELSE IF Head(parts) = <<".", ".">>
         THEN IF at = <<>> THEN Outside
              ELSE walk(Tail(parts), SubSeq(at, 1, Len(at) - 1))
    ELSE walk(Tail(parts), Append(at, Head(parts)))

\* LocalBackend._resolve: an absolute path is taken as it is, and with the
\* spellings above it is never below the root.
Resolve(path) ==
    IF path # <<>> /\ Head(path) = "/" THEN Outside
    ELSE walk(split(path, <<>>), <<>>)

\* Three files under their plain names, one more than the cache holds.
CachePaths == {<<"a">>, <<"b">>, <<"c">>}

\* The files the spellings can name; the root itself is a directory.
SpelledKeys == {Resolve(path) : path \in Paths} \ {Outside, <<>>}

FileKeys == SpelledKeys \cup {Resolve(path) : path \in CachePaths}

\* evicted (not in the code) names the keys the call pushed out of the cache.
NoCall == [op |-> "none", path |-> <<>>, content |-> "", ok |-> FALSE,
           ret |-> <<>>, follows |-> <<>>, evicted |-> {}]

\* used (not in the code) lists the cached keys from the least to the most
\* recently read or written.
FsInit ==
    [entries |-> <<>>,
     files |-> [k \in FileKeys |-> <<>>],
     used |-> <<>>,
     last |-> NoCall]

forget(used, key) == SelectSeq(used, LAMBDA k : k # key)

bump(used, key) == Append(forget(used, key), key)

cached_keys(entries) == {entries[i].path : i \in 1..Len(entries)}

kept(used, entries) == SelectSeq(used, LAMBDA k : k \in cached_keys(entries))

without(entries, key) ==
    SelectSeq(entries, LAMBDA e : e.path # key)

\* FileCache.get: the content under the key as an Optional, <<>> for None.
cached_get(entries, key) ==
    IF \E i \in 1..Len(entries) : entries[i].path = key
    THEN <<entries[CHOOSE i \in 1..Len(entries) : entries[i].path = key].content>>
    ELSE <<>>

\* A get that leaves the access order as it is.
touch_not(entries, key) == entries

\* FileCache.get, lines 52-56: a hit moves the key to the young end.
touch(entries, key) ==
    IF cached_get(entries, key) = <<>> THEN entries
    ELSE Append(without(entries, key),
                [path |-> key, content |-> cached_get(entries, key)[1]])

\* FileCache.set, lines 63-65: evict the oldest while at capacity.
RECURSIVE evict(_)
evict(entries) ==
    IF Len(entries) >= FsMaxEntries /\ entries # <<>>
    THEN evict(Tail(entries))
    ELSE entries

\* FileCache.set
cache_set(entries, key, content) ==
    Append(without(evict(entries), key), [path |-> key, content |-> content])

\* FileCache.invalidate
invalidate(entries, key) == without(entries, key)

\* A hit test that takes an empty cached string for a miss.
is_hit_truthy(cached) == cached # <<>> /\ cached[1] # ""

\* read_file, line 152: cached is not None
is_hit(cached) == cached # <<>>

\* FSTools.read_file
ReadFile(path) ==
    LET norm_path == normalize_path(path)
        cached == cached_get(fs.entries, norm_path)
        entries == touch(fs.entries, norm_path)
        follows == IF fs.last.op = "write" /\ fs.last.ok
                   THEN <<[path |-> fs.last.path, content |-> fs.last.content]>>
                   ELSE <<>>
        call == [op |-> "read", path |-> path, content |-> "", ok |-> TRUE,
                 ret |-> <<>>, follows |-> follows, evicted |-> {}]
        loaded == cache_set(entries, norm_path, fs.files[Resolve(path)][1])
    IN
    /\ IF is_hit(cached)
       THEN fs' = [fs EXCEPT !.entries = entries,
                             !.used = bump(@, norm_path),
                             !.last = [call EXCEPT !.ret = cached]]
       ELSE \/ /\ Resolve(path) \in FileKeys
               /\ fs.files[Resolve(path)] # <<>>
               /\ fs' = [fs EXCEPT
                           !.entries = loaded,
                           !.used = kept(bump(@, norm_path), loaded),
                           !.last = [call EXCEPT
                                        !.ret = fs.files[Resolve(path)],
                                        !.evicted = cached_keys(entries) \ cached_keys(loaded)]]
            \/ fs' = [fs EXCEPT !.entries = entries,
                                !.last = [call EXCEPT !.ok = FALSE]]
    /\ UNCHANGED <<orch_vars, ex, turn, out, det, mgr_call, hist, life>>

\* FSTools.write_file; the backend write may raise for any path.
WriteFile(path, content) ==
    LET norm_path == normalize_path(path)
        call == [op |-> "write", path |-> path, content |-> content,
                 ok |-> TRUE, ret |-> <<>>, follows |-> <<>>, evicted |-> {}]
        written == cache_set(fs.entries, norm_path, content)
    IN
    /\ \/ /\ Resolve(path) \in FileKeys
          /\ fs' = [fs EXCEPT
                      !.files[Resolve(path)] = <<content>>,
                      !.entries = written,
                      !.used = kept(bump(@, norm_path), written),
                      !.last = [call EXCEPT
                                  !.evicted = cached_keys(fs.entries) \ cached_keys(written)]]
       \/ fs' = [fs EXCEPT !.entries = invalidate(fs.entries, norm_path),
                           !.used = forget(@, norm_path),
                           !.last = [call EXCEPT !.ok = FALSE]]
    /\ UNCHANGED <<orch_vars, ex, turn, out, det, mgr_call, hist, life>>

\* FSTools.run: a shell command changes or removes a file behind the cache.
FsRun ==
    /\ \E k \in SpelledKeys : \E c \in {<<>>} \cup {<<x>> : x \in FileContents} :
          fs' = [fs EXCEPT !.files[k] = c, !.last = [NoCall EXCEPT !.op = "run"]]
    /\ UNCHANGED <<orch_vars, ex, turn, out, det, mgr_call, hist, life>>

FsNext ==
    \/ \E path \in Paths : ReadFile(path)
    \/ \E path \in Paths : \E content \in FileContents : WriteFile(path, content)
    \/ FsRun

\* The cache alone, under reads and writes of the three files.
CacheNext ==
    \/ \E path \in CachePaths : ReadFile(path)
    \/ \E path \in CachePaths : \E content \in FileContents :
          WriteFile(path, content)


(* The command executor (src/server/tools/async_executor.py): one
   AsyncProcessExecutor with its CommandLogStore. A command is the sequence
   of its words (str.strip and the \s+ between words are in the
   representation); a log keeps the fields the store and the pagination
   counter work on; the output lines themselves are left out. *)

\* Capacity of the CommandLogStore (max_entries, 50 in the code).
ExMaxEntries == 2

\* Time to live of a log in clock ticks (ttl_minutes, 30 in the code).
ExTtl == 1

\* The clock stops here.
ExMaxTime == 3

\* Bound on the commands launched in a run.
ExMaxCommands == 3

\* max_pagination_calls (3 in the code).
MaxPaginationCalls == 2

\* Commands handed to run_command and run_background.
Commands ==
    { <<>>, <<"ls">>, <<"sudo", "ls">>, <<"SUDO", "ls">>,
      <<"rm", "-rf", "/">>, <<"rm", "-rf", "x">>,
      <<"git", "push">>, <<"git", "push", "origin", "--force">> }

\* re.I: the match ignores case.
lower(w) == IF w = "SUDO" THEN "sudo" ELSE w

\* A pattern: word classes that must follow one another (adj), whether
\* white space must follow the last of them (more), and a class of words of
\* which one must come later (later, empty for none).
\*   sudo\s+   rm\s+-[rf]*\s+[/~]   git\s+push.*--force
BLOCKED_PATTERNS ==
    { [adj |-> <<{"sudo"}>>, more |-> TRUE, later |-> {}],
      [adj |-> <<{"rm"}, {"-r", "-f", "-rf", "-fr"}, {"/", "~"}>>,
       more |-> FALSE, later |-> {}],
      [adj |-> <<{"git"}, {"push"}>>, more |-> FALSE, later |-> {"--force"}] }

\*   git\s+push   rm\s+-[rf]   npm\s+publish   docker\s+(rm|rmi|system\s+prune)
CONFIRM_PATTERNS ==
    { [adj |-> <<{"git"}, {"push"}>>, more |-> FALSE, later |-> {}],
      [adj |-> <<{"rm"}, {"-r", "-f", "-rf", "-fr"}>>,
       more |-> FALSE, later |-> {}],
      [adj |-> <<{"npm"}, {"publish"}>>, more |-> FALSE, later |-> {}],
      [adj |-> <<{"docker"}, {"rm", "rmi"}>>, more |-> FALSE, later |-> {}],
      [adj |-> <<{"docker"}, {"system"}, {"prune"}>>,
       more |-> FALSE, later |-> {}] }

\* re.search(p, command, re.I)
search(p, command) ==
    \E i \in 1..Len(command) :
        LET end == i + Len(p.adj) - 1 IN
        /\ end <= Len(command)
        /\ \A j \in 1..Len(p.adj) : lower(command[i + j - 1]) \in p.adj[j]
        /\ p.more => end < Len(command)
        /\ p.later # {} =>
              \E k \in (end + 1)..Len(command) : lower(command[k]) \in p.later

\* A blocklist test that lets everything through.
is_blocked_never(command) == FALSE

is_blocked(command) == \E p \in BLOCKED_PATTERNS : search(p, command)

needs_confirm(command) == \E p \in CONFIRM_PATTERNS : search(p, command)

NoResult ==
    [op |-> "none", command |-> <<>>, confirmed |-> FALSE, kind |-> "none",
     spawned |-> FALSE, logged |-> FALSE, cmd_id |-> Null, returned |-> {},
     listed |-> <<>>]

ExInit ==
    [logs |-> <<>>,
     next_id |-> 1,
     now |-> 0,
     limited |-> {},
     orphans |-> {},
     last |-> NoResult]

\* CommandLog(cmd_id=..., command=...): started_at is the time of creation.
CommandLog(cmd_id, command, now, running) ==
    [cmd_id |-> cmd_id, command |-> command, started_at |-> now,
     pagination_count |-> 0, running |-> running]

\* An expiry sweep that removes nothing.
evict_expired_none(logs, now) == logs

\* CommandLogStore._evict_expired
evict_expired(logs, now) ==
    SelectSeq(logs, LAMBDA log : ~(now - log.started_at > ExTtl))

has_log(logs, cmd_id) == \E i \in 1..Len(logs) : logs[i].cmd_id = cmd_id

the_log(logs, cmd_id) ==
    logs[CHOOSE i \in 1..Len(logs) : logs[i].cmd_id = cmd_id]

\* OrderedDict.move_to_end
move_to_end(logs, cmd_id) ==
    IF has_log(logs, cmd_id)
    THEN Append(SelectSeq(logs, LAMBDA log : log.cmd_id # cmd_id),
                the_log(logs, cmd_id))
    ELSE logs

\* CommandLogStore.store
store(logs, log, now) ==
    LET live == evict_expired(logs, now)
        room == IF Len(live) >= ExMaxEntries THEN Tail(live) ELSE live
    IN  Append(SelectSeq(room, LAMBDA l : l.cmd_id # log.cmd_id), log)

\* CommandLogStore.get: the store after the call; the log returned is
\* the_log of it when has_log.
store_get(logs, cmd_id, now) == move_to_end(evict_expired(logs, now), cmd_id)

\* CommandLogStore.list_recent: the logs of the keys returned.
list_recent(logs, limit) ==
    SubSeq(logs, IF Len(logs) > limit THEN Len(logs) - limit + 1 ELSE 1,
           Len(logs))

ages(logs, now) == {now - logs[i].started_at : i \in 1..Len(logs)}

\* AsyncProcessExecutor.terminate, as far as the store and the log go.
terminate(logs, cmd_id, now) ==
    LET got == store_get(logs, cmd_id, now) IN
    [i \in 1..Len(got) |->
        IF got[i].cmd_id = cmd_id THEN [got[i] EXCEPT !.running = FALSE]
        ELSE got[i]]

first_words(command) ==
    SubSeq(command, 1, IF Len(command) > 3 THEN 3 ELSE Len(command))

\* _kill_similar_background: over a snapshot of the keys, terminate every
\* running background process whose first three words are the command's.
RECURSIVE kill_similar(_, _, _, _)
kill_similar(logs, keys, command, now) ==
    IF keys = <<>> THEN logs
    ELSE LET cmd_id == Head(keys)
             hit == /\ has_log(logs, cmd_id)
                    /\ the_log(logs, cmd_id).running
                    /\ first_words(the_log(logs, cmd_id).command)
                          = first_words(command)
         IN  kill_similar(IF hit THEN terminate(logs, cmd_id, now) ELSE logs,
                          Tail(keys), command, now)

keys_of(logs) == [i \in 1..Len(logs) |-> logs[i].cmd_id]

\* The background processes that run on although their log is no longer in
\* the store: _evict_expired and popitem drop the CommandLog, nothing stops
\* its process.
lost(before, after) ==
    {[cmd_id |-> before[i].cmd_id, command |-> before[i].command] :
        i \in {j \in 1..Len(before) :
                  before[j].running /\ ~has_log(after, before[j].cmd_id)}}

Rejected(op, command, confirmed, kind) ==
    [NoResult EXCEPT !.op = op, !.command = command,
                     !.confirmed = confirmed, !.kind = kind]

\* What run_command and run_background do once the command is let through:
\* create the log, store it, spawn (create_subprocess_shell may raise).
Launch(op, command, confirmed, logs, running) ==
    /\ ex.next_id <= ExMaxCommands
    /\ \E spawned \in BOOLEAN :
          LET stored == store(logs,
                              CommandLog(ex.next_id, command, ex.now,
                                         running /\ spawned),
                              ex.now)
          IN  ex' = [ex EXCEPT
                       !.logs = stored,
                       !.orphans = @ \cup lost(ex.logs, logs)
                                     \cup lost(logs, stored),
                       !.next_id = @ + 1,
                       !.last = [NoResult EXCEPT
                                   !.op = op, !.command = command,
                                   !.confirmed = confirmed,
                                   !.kind = IF spawned THEN "ran" ELSE "error",
                                   !.spawned = spawned, !.logged = TRUE,
                                   !.cmd_id = ex.next_id]]

\* AsyncProcessExecutor.run_command
RunCommand(command, confirmed, cwd_ok) ==
    /\ IF command = <<>>
       THEN ex' = [ex EXCEPT !.last =
                      Rejected("run_command", command, confirmed, "empty")]
       ELSE IF is_blocked(command)
       THEN ex' = [ex EXCEPT !.last =
                      Rejected("run_command", command, confirmed, "BLOCKED")]
       ELSE IF needs_confirm(command) /\ ~confirmed
       THEN ex' = [ex EXCEPT !.last =
                      Rejected("run_command", command, confirmed,
                               "CONFIRMATION REQUIRED")]
       ELSE IF ~cwd_ok
       THEN ex' = [ex EXCEPT !.last =
                      Rejected("run_command", command, confirmed, "cwd")]
       ELSE Launch("run_command", command, confirmed, ex.logs, FALSE)
    /\ UNCHANGED <<orch_vars, fs, turn, out, det, mgr_call, hist, life>>

\* AsyncProcessExecutor.run_background: it takes no confirmed argument.
RunBackground(command, cwd_ok) ==
    /\ IF command = <<>>
       THEN ex' = [ex EXCEPT !.last =
                      Rejected("run_background", command, FALSE, "empty")]
       ELSE IF is_blocked(command)
       THEN ex' = [ex EXCEPT !.last =
                      Rejected("run_background", command, FALSE, "BLOCKED")]
       ELSE IF ~cwd_ok
       THEN ex' = [ex EXCEPT !.last =
                      Rejected("run_background", command, FALSE, "cwd")]
       ELSE Launch("run_background", command, FALSE,
                   kill_similar(ex.logs, keys_of(ex.logs), command, ex.now),
                   TRUE)
    /\ UNCHANGED <<orch_vars, fs, turn, out, det, mgr_call, hist, life>>

\* _stream_output, finally: a background process has ended, whether its
\* log is still in the store or not.
ProcExit(cmd_id) ==
    /\ \/ /\ has_log(ex.logs, cmd_id)
          /\ the_log(ex.logs, cmd_id).running
          /\ ex' = [ex EXCEPT !.logs =
                       [i \in 1..Len(ex.logs) |->
                           IF ex.logs[i].cmd_id = cmd_id
                           THEN [ex.logs[i] EXCEPT !.running = FALSE]
                           ELSE ex.logs[i]]]
       \/ /\ \E o \in ex.orphans : o.cmd_id = cmd_id
          /\ ex' = [ex EXCEPT !.orphans = {o \in @ : o.cmd_id # cmd_id}]
    /\ UNCHANGED <<orch_vars, fs, turn, out, det, mgr_call, hist, life>>

\* A limit test that lets one more call through.
over_limit_late(count) == count > MaxPaginationCalls + 1

\* read_log, line 515: log.pagination_count > self.max_pagination_calls
over_limit(count) == count > MaxPaginationCalls

\* AsyncProcessExecutor.read_log; the lines read may be binary. limited
\* remembers the logs for which the pagination limit has been answered.
ReadLog(cmd_id) ==
    LET got == store_get(ex.logs, cmd_id, ex.now)
        res == [NoResult EXCEPT !.op = "read_log", !.cmd_id = cmd_id]
    IN
    /\ cmd_id < ex.next_id
    /\ IF ~has_log(got, cmd_id)
       THEN ex' = [ex EXCEPT
                     !.logs = got,
                     !.orphans = @ \cup lost(ex.logs, got),
                     !.last = [res EXCEPT
                                 !.kind = "not found",
                                 !.returned = ages(list_recent(got, 5), ex.now)]]
       ELSE LET count == the_log(got, cmd_id).pagination_count + 1
                logs == [i \in 1..Len(got) |->
                            IF got[i].cmd_id = cmd_id
                            THEN [got[i] EXCEPT !.pagination_count = count]
                            ELSE got[i]]
                returned == {ex.now - the_log(got, cmd_id).started_at}
            IN  /\ count <= MaxPaginationCalls + 2
                /\ \E kind \in IF over_limit(count)
                               THEN {"pagination limit"}
                               ELSE {"lines", "binary"} :
                      ex' = [ex EXCEPT
                               !.logs = logs,
                               !.orphans = @ \cup lost(ex.logs, got),
                               !.limited = IF kind = "pagination limit"
                                           THEN @ \cup {cmd_id} ELSE @,
                               !.last = [res EXCEPT !.kind = kind,
                                                    !.returned = returned]]
    /\ UNCHANGED <<orch_vars, fs, turn, out, det, mgr_call, hist, life>>

\* AsyncProcessExecutor.list_commands: list_recent, then get on each key
\* from the youngest to the oldest.
RECURSIVE get_each(_, _, _)
get_each(logs, keys, now) ==
    IF keys = <<>> THEN logs
    ELSE get_each(store_get(logs, keys[Len(keys)], now),
                  SubSeq(keys, 1, Len(keys) - 1), now)

ListCommands(limit) ==
    LET live == evict_expired(ex.logs, ex.now)
        recent == list_recent(live, limit)
    IN
    /\ ex' = [ex EXCEPT
                !.logs = get_each(live, keys_of(recent), ex.now),
                !.orphans = @ \cup lost(ex.logs, live),
                !.last = [NoResult EXCEPT
                            !.op = "list_commands",
                            !.kind = "listed",
                            !.returned = ages(recent, ex.now),
                            !.listed = [i \in 1..Len(recent) |->
                                           recent[Len(recent) + 1 - i].cmd_id]]]
    /\ UNCHANGED <<orch_vars, fs, turn, out, det, mgr_call, hist, life>>

\* Time passes.
Tick ==
    /\ ex.now < ExMaxTime
    /\ ex' = [ex EXCEPT !.now = @ + 1]
    /\ UNCHANGED <<orch_vars, fs, turn, out, det, mgr_call, hist, life>>

\* AsyncProcessExecutor.terminate
Terminate(cmd_id) ==
    LET got == store_get(ex.logs, cmd_id, ex.now)
        res == [NoResult EXCEPT !.op = "terminate", !.cmd_id = cmd_id]
    IN
    /\ cmd_id < ex.next_id
    /\ ex' = [ex EXCEPT
                !.logs = terminate(ex.logs, cmd_id, ex.now),
                !.orphans = @ \cup lost(ex.logs, got),
                !.last = [res EXCEPT !.kind =
                            IF ~has_log(got, cmd_id) THEN "not found"
                            ELSE IF ~the_log(got, cmd_id).running
                                 THEN "already_stopped"
                                 ELSE "terminated"]]
    /\ UNCHANGED <<orch_vars, fs, turn, out, det, mgr_call, hist, life>>

\* cleanup_all: over a snapshot of the keys, terminate every log in the
\* store that is running and has a process.
RECURSIVE cleanup(_, _, _)
cleanup(logs, keys, now) ==
    IF keys = <<>> THEN logs
    ELSE LET cmd_id == Head(keys)
             hit == has_log(logs, cmd_id) /\ the_log(logs, cmd_id).running
         IN  cleanup(IF hit THEN terminate(logs, cmd_id, now) ELSE logs,
                     Tail(keys), now)

\* AsyncProcessExecutor.cleanup_all
CleanupAll ==
    LET logs == cleanup(ex.logs, keys_of(ex.logs), ex.now) IN
    /\ ex' = [ex EXCEPT
                !.logs = logs,
                !.orphans = @ \cup lost(ex.logs, logs),
                !.last = [NoResult EXCEPT !.op = "cleanup_all",
                                          !.kind = "cleaned"]]
    /\ UNCHANGED <<orch_vars, fs, turn, out, det, mgr_call, hist, life>>

\* Commands started in the background: two that differ in their first words.
BgCommands == {<<"ls">>, <<"git", "push">>}

\* Background processes over time: launches, exits, terminate, cleanup_all.
ProcNext ==
    \/ \E command \in BgCommands : RunBackground(command, TRUE)
    \/ RunCommand(<<"ls">>, FALSE, TRUE)
    \/ \E cmd_id \in 1..ExMaxCommands : ProcExit(cmd_id)
    \/ \E cmd_id \in 1..ExMaxCommands : Terminate(cmd_id)
    \/ CleanupAll
    \/ Tick

\* Launching: every command, confirmed or not, with a good or a bad cwd.
LaunchNext ==
    \/ \E command \in Commands : \E confirmed, cwd_ok \in BOOLEAN :
          RunCommand(command, confirmed, cwd_ok)
    \/ \E command \in Commands : \E cwd_ok \in BOOLEAN :
          RunBackground(command, cwd_ok)
    \/ \E cmd_id \in 1..ExMaxCommands : ProcExit(cmd_id)

\* The logs over time: one harmless command, run and read again.
LogNext ==
    \/ RunCommand(<<"ls">>, FALSE, TRUE)
    \/ \E cmd_id \in 1..ExMaxCommands : ReadLog(cmd_id)
    \/ \E limit \in {1, 5} : ListCommands(limit)
    \/ Tick


(* One subscription stream in detail (generate in
   src/server/api/routers/agent.py over stream_agent_events in
   src/server/api/services/agent_runner.py): the events sent to the
   subscriber with their step ids. The agent runtime runs the tool calls of
   a message one after the other (tool_executor in agent_e2b.py); a tool
   that raises ends without an on_tool_end event and the run goes on. *)

\* Bound on the visible tool calls of a stream (step_counter).
MaxSteps == 3

\* Bound on the events of a stream.
MaxEvents == 6

VISIBLE_TOOLS == {"read_file", "run_command"}

\* Tools the agent calls: the visible ones, one that is not shown, and
\* show_user_message.
Tools == VISIBLE_TOOLS \cup {"start_dev_server", "show_user_message"}

\* What step 1 of generate finds: a sandbox created with or without a
\* preview URL, a creation that fails, a URL in the session row or none.
Provisionings ==
    {"created", "created no url", "create failed", "loaded", "loaded none"}

\* Python None, where a JSON text or a list is expected.
None == <<"None">>

\* No assistant message of the turn (is stored, was listed).
NoMessage == <<"no message">>

\* Lines 155-171, for calls without path and without command.
title_of(tool_name) ==
    IF tool_name = "read_file" THEN "Read file"
    ELSE IF tool_name = "run_command" THEN "Running "
    ELSE tool_name

\* The step dicts of collected_steps: ids step-1.. in the order of the
\* list, with the status each has now.
steps_of(collected_steps, titles) ==
    [k \in 1..Len(collected_steps) |->
        [id |-> k, type |-> "tool", title |-> titles[k],
         status |-> collected_steps[k]]]

\* json.dumps of a list of step dicts: the text as its tokens.
RECURSIVE json_dumps(_)
json_dumps(steps) ==
    IF steps = <<>> THEN <<"[", "]">>
    ELSE LET rest == json_dumps(Tail(steps))
             step == Head(steps)
         IN  <<"[", "{", step.id, step.type, step.title, step.status, "}">>
                 \o Tail(rest)

\* json.loads of such a text.
RECURSIVE json_loads(_)
json_loads(text) ==
    IF Len(text) <= 2 THEN <<>>
    ELSE <<[id |-> text[3], type |-> text[4], title |-> text[5],
            status |-> text[6]]>>
             \o json_loads(<<"[">> \o SubSeq(text, 8, Len(text)))

\* A save that stores the steps as they were when they were sent.
saved_steps_as_sent(collected_steps, titles) ==
    IF collected_steps = <<>> THEN None
    ELSE json_dumps(steps_of([k \in 1..Len(collected_steps) |-> "running"],
                             titles))

\* Line 211: steps=json.dumps(collected_steps) if collected_steps else None
saved_steps(collected_steps, titles) ==
    IF collected_steps = <<>> THEN None
    ELSE json_dumps(steps_of(collected_steps, titles))

\* Line 278 of list_messages: json.loads(m.steps) if m.steps else None
listed_steps(steps) == IF steps = None THEN None ELSE json_loads(steps)

TurnInit ==
    [pc |-> "idle",
     preview_url |-> FALSE,
     events |-> <<>>,
     step_counter |-> 0,
     collected_steps |-> <<>>,
     tool_step_map |-> [tool \in VISIBLE_TOOLS |-> Null],
     running |-> "",
     has_content |-> FALSE,
     yielded |-> "",
     titles |-> <<>>,
     stored |-> NoMessage,
     listed |-> NoMessage]

\* An event sent to the subscriber; a tool_start event carries its step
\* dict, of which the title is kept here (its status is running).
Event(type, step_id) == [type |-> type, step_id |-> step_id, title |-> ""]

\* generate, lines 98-132: step 1 and step 2.
TurnStart(found) ==
    /\ turn.pc \in {"idle", "saved", "listed", "failed"}
    /\ turn' =
          IF found = "create failed"
          THEN [TurnInit EXCEPT
                  !.pc = "failed",
                  !.events = <<Event("error", Null), Event("done", Null)>>]
          ELSE [TurnInit EXCEPT
                  !.pc = "agent",
                  !.preview_url = found \in {"created", "loaded"},
                  !.events = IF found \in {"created", "loaded"}
                             THEN <<Event("preview_url", Null)>>
                             ELSE <<>>]
    /\ UNCHANGED <<orch_vars, fs, ex, out, det, mgr_call, hist, life>>

\* A generate that passes the agent's preview_ready on as preview_url.
on_preview_ready_forward(events) == Append(events, Event("preview_url", Null))

\* generate, lines 134-201: no branch of the loop takes preview_ready.
on_preview_ready(events) == events

\* A map that keeps the first step id recorded for a tool.
remember_first(tool_step_map, tool_name, step_id) ==
    IF tool_step_map[tool_name] = Null
    THEN [tool_step_map EXCEPT ![tool_name] = step_id]
    ELSE tool_step_map

\* Line 180: tool_step_map[tool_name] = step_id
remember(tool_step_map, tool_name, step_id) ==
    [tool_step_map EXCEPT ![tool_name] = step_id]

\* on_tool_start: show_user_message becomes user_message (when it has a
\* text), any other tool tool_start; generate shows the visible ones.
ToolStart(tool, has_text) ==
    /\ turn.pc = "agent"
    /\ turn.running = ""
    /\ Len(turn.events) < MaxEvents
    /\ IF tool = "show_user_message"
       THEN turn' = IF has_text
                    THEN [turn EXCEPT !.running = tool,
                                      !.has_content = TRUE,
                                      !.yielded = "user_message",
                                      !.events = Append(@, Event("user_message", Null))]
                    ELSE [turn EXCEPT !.running = tool, !.yielded = ""]
       ELSE IF tool \in VISIBLE_TOOLS
       THEN /\ turn.step_counter < MaxSteps
            /\ turn' = [turn EXCEPT
                          !.running = tool,
                          !.yielded = "tool_start",
                          !.step_counter = @ + 1,
                          !.collected_steps = Append(@, "running"),
                          !.titles = Append(@, title_of(tool)),
                          !.tool_step_map = remember(@, tool, turn.step_counter + 1),
                          !.events = Append(@,
                              [Event("tool_start", turn.step_counter + 1)
                                  EXCEPT !.title = title_of(tool)])]
       ELSE turn' = [turn EXCEPT !.running = tool, !.yielded = "tool_start"]
    /\ UNCHANGED <<orch_vars, fs, ex, out, det, mgr_call, hist, life>>

\* on_tool_end: tool_end (not for show_user_message), then preview_ready
\* when the output names a preview URL. `yielded` is the last event that
\* stream_agent_events yielded in the step, "" when it yielded none.
ToolEnd(names_url) ==
    LET tool == turn.running
        step_id == turn.tool_step_map[tool]
        sent == IF tool \in VISIBLE_TOOLS
                THEN Append(turn.events, Event("tool_end", step_id))
                ELSE turn.events
    IN
    /\ turn.pc = "agent"
    /\ tool # ""
    /\ Len(turn.events) < MaxEvents
    /\ IF tool = "show_user_message"
       THEN turn' = [turn EXCEPT !.running = "", !.yielded = ""]
       ELSE turn' = [turn EXCEPT
                       !.running = "",
                       !.yielded = IF names_url THEN "preview_ready"
                                   ELSE "tool_end",
                       !.collected_steps =
                           IF tool \in VISIBLE_TOOLS /\ step_id # Null
                           THEN [@ EXCEPT ![step_id] = "done"]
                           ELSE @,
                       !.events = IF names_url THEN on_preview_ready(sent)
                                  ELSE sent]
    /\ UNCHANGED <<orch_vars, fs, ex, out, det, mgr_call, hist, life>>

\* The tool raises: tool_executor catches it and goes on; the runtime sends
\* no on_tool_end for the call.
ToolError ==
    /\ turn.pc = "agent"
    /\ turn.running # ""
    /\ turn' = [turn EXCEPT !.running = "", !.yielded = ""]
    /\ UNCHANGED <<orch_vars, fs, ex, out, det, mgr_call, hist, life>>

\* The agent run ends: done is sent, the assistant message and the status
\* are saved.
TurnDone ==
    /\ turn.pc = "agent"
    /\ turn.running = ""
    /\ turn' = [turn EXCEPT
                  !.pc = "saved", !.yielded = "done",
                  !.events = Append(@, Event("done", Null)),
                  !.stored = IF turn.has_content \/ turn.collected_steps # <<>>
                             THEN saved_steps(turn.collected_steps, turn.titles)
                             ELSE NoMessage]
    /\ UNCHANGED <<orch_vars, fs, ex, out, det, mgr_call, hist, life>>

\* list_messages after the turn: the steps key of the turn's assistant
\* message, if one was stored.
TurnList ==
    /\ turn.pc = "saved"
    /\ turn' = [turn EXCEPT
                  !.pc = "listed",
                  !.listed = IF turn.stored = NoMessage THEN NoMessage
                             ELSE listed_steps(turn.stored)]
    /\ UNCHANGED <<orch_vars, fs, ex, out, det, mgr_call, hist, life>>

\* The agent run raises (model call, graph): the except branch sends error.
TurnRaise ==
    /\ turn.pc = "agent"
    /\ turn' = [turn EXCEPT !.pc = "failed", !.running = "", !.yielded = "",
                            !.events = Append(@, Event("error", Null))]
    /\ UNCHANGED <<orch_vars, fs, ex, out, det, mgr_call, hist, life>>

TurnNext ==
    \/ \E found \in Provisionings : TurnStart(found)
    \/ \E tool \in Tools : \E has_text \in BOOLEAN : ToolStart(tool, has_text)
    \/ \E names_url \in BOOLEAN : ToolEnd(names_url)
    \/ ToolError
    \/ TurnDone
    \/ TurnList
    \/ TurnRaise


(* The output of one blocking command (async_executor.py, run_command from
   the log it creates to the dict it returns, and _format_output). Here the
   lines are modelled: a text is the sequence of its characters, a line ends
   with "\n". The store side of the same call is RunCommand above. *)

\* Bound on the lines a command prints on stdout.
MaxLines == 42

\* default_tail_lines (constructor default).
default_tail_lines == 40

\* exit_code of a CommandLog whose command has not ended (None).
NoExitCode == 999

\* Stands for a control character (ord(c) < 32, not \n \r \t), such as \x00.
CTRL == "^@"

WhiteSpace == {" ", "\n", "\r", "\t"}

\* str(n) of a natural number.
RECURSIVE str(_)
str(n) ==
    LET Digit(d) == <<"0", "1", "2", "3", "4", "5", "6", "7", "8", "9">>[d + 1]
    IN  IF n < 10 THEN <<Digit(n)>> ELSE Append(str(n \div 10), Digit(n % 10))

\* The shapes of what a command prints: numbered text lines; the same with
\* the last two lines empty; control characters on every line; one control
\* character in the ten characters of every line; text for ten lines and
\* control characters after them.
Layouts == {"text", "blank_tail", "binary", "tenth", "late_binary"}

\* splitlines(keepends=True) of what the command wrote on stdout.
stdout_of(n, layout) ==
    LET text_line(i) == str(i) \o <<"\n">>
        binary_line == <<CTRL, "\n">>
        tenth_line == <<CTRL, "a", "a", "a", "a", "a", "a", "a", "a", "\n">>
    IN  [i \in 1..n |->
            CASE layout = "text" -> text_line(i)
              [] layout = "blank_tail" ->
                    IF i > n - 2 THEN <<"\n">> ELSE text_line(i)
              [] layout = "binary" -> binary_line
              [] layout = "tenth" -> tenth_line
              [] layout = "late_binary" ->
                    IF i > 10 THEN binary_line ELSE text_line(i)]

\* ... and on stderr.
stderr_of(n) == [i \in 1..n |-> <<"e", "r", "r", "\n">>]

\* "".join(lines)
RECURSIVE join(_)
join(lines) == IF lines = <<>> THEN <<>> ELSE Head(lines) \o join(Tail(lines))

\* A tail taken from the front of the list.
last_lines_head(lines, n) ==
    SubSeq(lines, 1, IF Len(lines) > n THEN n ELSE Len(lines))

\* lines[-n:]
last_lines(lines, n) ==
    SubSeq(lines, IF Len(lines) > n THEN Len(lines) - n + 1 ELSE 1, Len(lines))

\* lines[:n]
first_lines(lines, n) == SubSeq(lines, 1, IF Len(lines) > n THEN n ELSE Len(lines))

\* Commands whose output is shaped: plain, noisy, noisy words not in front.
OutCommands == {<<"ls">>, <<"git", "pull">>, <<"echo", "git", "pull">>}

\*   ^npm\s+(install|ci|update)   ^git\s+(clone|pull|fetch)   ^cargo\s+build
NOISY_PATTERNS ==
    { <<{"npm"}, {"install", "ci", "update"}>>,
      <<{"git"}, {"clone", "pull", "fetch"}>>,
      <<{"cargo"}, {"build"}>> }

\* _is_noisy: the patterns are anchored at the start of the command.
is_noisy(command) ==
    \E p \in NOISY_PATTERNS :
        /\ Len(p) <= Len(command)
        /\ \A j \in 1..Len(p) : lower(command[j]) \in p[j]

\* _is_binary: more than a tenth of text[:1000] are control characters
\* (non_printable > len * 0.1, which for whole numbers is
\* non_printable * 10 > len).
is_binary(text) ==
    LET head == SubSeq(text, 1, IF Len(text) > 1000 THEN 1000 ELSE Len(text))
        non_printable == Cardinality({i \in 1..Len(head) : head[i] = CTRL})
    IN  text # <<>> /\ non_printable * 10 > Len(head)

BinaryNotice == <<"[Binary output detected. Cannot display.]">>

NoHint == <<>>

\* _format_output: the dict returned for a finished command. hint is
\* <<len(tail), total_lines>> when the key is there.
format_output(log, verbose) ==
    LET all_lines == log.stdout_lines \o log.stderr_lines
        total_lines == Len(all_lines)
        sample == join(first_lines(all_lines, 10))
        noisy == is_noisy(log.command)
        success == log.exit_code = 0
        tail == IF success THEN last_lines(all_lines, 10)
                ELSE last_lines(all_lines, default_tail_lines)
        output == IF verbose THEN join(all_lines)
                  ELSE IF success /\ noisy
                  THEN <<"Completed successfully. [">> \o str(total_lines)
                          \o <<" lines suppressed]">>
                  ELSE join(tail)
        truncated == IF verbose THEN FALSE
                     ELSE IF success /\ noisy THEN TRUE
                     ELSE IF success THEN total_lines > 10
                     ELSE total_lines > default_tail_lines
        base == [status |-> "completed", exit_code |-> log.exit_code,
                 total_lines |-> total_lines]
    IN  IF is_binary(sample)
        THEN base @@ [output |-> BinaryNotice, hint |-> NoHint]
        ELSE base @@ [output |-> rstrip(output, WhiteSpace),
                      hint |-> IF truncated /\ ~(success /\ noisy)
                               THEN <<Len(tail), total_lines>> ELSE NoHint]

NoOutput == [status |-> "none", exit_code |-> NoExitCode, total_lines |-> 0,
             output |-> <<>>, hint |-> NoHint]

\* CommandLog(cmd_id, command, cwd): the fields the result is made of.
NewLog(command) ==
    [command |-> command, exit_code |-> NoExitCode, stdout_lines |-> <<>>,
     stderr_lines |-> <<>>, is_running |-> TRUE]

\* Before any command: no log, no subprocess, nothing returned.
OutInit ==
    [at |-> "idle", op |-> "none", verbose |-> FALSE, proc |-> "none",
     log |-> [NewLog(<<>>) EXCEPT !.is_running = FALSE], result |-> NoOutput]

TimeoutLine == <<"TIMEOUT: Command exceeded {effective_timeout}s", "\n">>

ErrorLine == <<"ERROR: {type(e).__name__}: {e}", "\n">>

\* A timeout branch that leaves the log marked as running.
timed_out_running(log) ==
    [log EXCEPT !.exit_code = -1, !.stderr_lines = <<TimeoutLine>>]

\* The except asyncio.TimeoutError branch, after proc.kill() and proc.wait().
timed_out(log) ==
    [log EXCEPT !.exit_code = -1, !.stderr_lines = <<TimeoutLine>>,
                !.is_running = FALSE]

\* The except Exception branch.
errored(log) ==
    [log EXCEPT !.exit_code = -1, !.stderr_lines = <<ErrorLine>>,
                !.is_running = FALSE]

\* run_command up to `await proc.communicate()`: the command is let through,
\* its log is created, the subprocess is spawned (or the spawn raises).
OutStart(command, verbose, spawned) ==
    /\ out.at # "communicate"
    /\ command # <<>>
    /\ ~is_blocked(command)
    /\ ~needs_confirm(command)
    /\ out' = IF spawned
              THEN [at |-> "communicate", op |-> "run_command",
                    verbose |-> verbose, proc |-> "running",
                    log |-> NewLog(command), result |-> NoOutput]
              ELSE [at |-> "returned", op |-> "spawn_error",
                    verbose |-> verbose, proc |-> "none",
                    log |-> errored(NewLog(command)),
                    result |-> format_output(errored(NewLog(command)), FALSE)]
    /\ UNCHANGED <<orch_vars, fs, ex, turn, det, mgr_call, hist, life>>

\* communicate() returns in time: the output is stored and shaped.
OutCommunicate(n, layout, errs, returncode) ==
    LET log == [out.log EXCEPT !.stdout_lines = stdout_of(n, layout),
                               !.stderr_lines = stderr_of(errs),
                               !.exit_code = returncode,
                               !.is_running = FALSE]
    IN
    /\ out.at = "communicate"
    /\ out' = [out EXCEPT !.at = "returned", !.op = "completed",
                          !.proc = "exited", !.log = log,
                          !.result = format_output(log, out.verbose)]
    /\ UNCHANGED <<orch_vars, fs, ex, turn, det, mgr_call, hist, life>>

\* communicate() does not return within the timeout.
OutTimeout ==
    /\ out.at = "communicate"
    /\ out' = [out EXCEPT !.at = "returned", !.op = "timeout",
                          !.proc = "killed", !.log = timed_out(out.log),
                          !.result = format_output(timed_out(out.log), FALSE)]
    /\ UNCHANGED <<orch_vars, fs, ex, turn, det, mgr_call, hist, life>>

OutNext ==
    \/ \E command \in OutCommands : \E verbose, spawned \in BOOLEAN :
          OutStart(command, verbose, spawned)
    \/ \E n \in 0..MaxLines : \E layout \in Layouts :
       \E errs \in 0..1 : \E returncode \in {0, 1} :
          OutCommunicate(n, layout, errs, returncode)
    \/ OutTimeout


(* The URL detector (async_executor.py, _detect_url, and the lines of
   run_background that apply it to the output harvested so far). A text is
   the sequence of its characters; the five regular expressions are matched
   character by character. *)

\* re.IGNORECASE: letters are compared in lower case.
lower_char(c) ==
    LET UPPER ==
            <<"A", "B", "C", "D", "E", "F", "G", "H", "I", "J", "K", "L", "M",
              "N", "O", "P", "Q", "R", "S", "T", "U", "V", "W", "X", "Y", "Z">>
        LOWER ==
            <<"a", "b", "c", "d", "e", "f", "g", "h", "i", "j", "k", "l", "m",
              "n", "o", "p", "q", "r", "s", "t", "u", "v", "w", "x", "y", "z">>
    IN  IF \E i \in 1..26 : UPPER[i] = c
        THEN LOWER[CHOOSE i \in 1..26 : UPPER[i] = c]
        ELSE c

Digits == {"0", "1", "2", "3", "4", "5", "6", "7", "8", "9"}

\* The literal parts of the patterns, in lower case.
Lit ==
    [ Local |->
          <<"l", "o", "c", "a", "l", ":">>,
      Localhost |->
          <<"h", "t", "t", "p", ":", "/", "/", "l", "o", "c", "a", "l", "h", "o",
          "s", "t", ":">>,
      Loopback |->
          <<"h", "t", "t", "p", ":", "/", "/", "1", "2", "7", ".", "0", ".", "0",
          ".", "1", ":">>,
      RunningAt |->
          <<"s", "e", "r", "v", "e", "r", " ", "r", "u", "n", "n", "i", "n", "g",
          " ", "a", "t">>,
      RunningOn |->
          <<"s", "e", "r", "v", "e", "r", " ", "r", "u", "n", "n", "i", "n", "g",
          " ", "o", "n">>,
      Listening |->
          <<"l", "i", "s", "t", "e", "n", "i", "n", "g", " ", "o", "n">>,
      Http |->
          <<"h", "t", "t", "p", ":", "/", "/">>,
      Https |->
          <<"h", "t", "t", "p", "s", ":", "/", "/">> ]

\* The literal is in the text at position i.
literal_at(text, i, lit) ==
    /\ i + Len(lit) - 1 <= Len(text)
    /\ \A j \in 1..Len(lit) : lower_char(text[i + j - 1]) = lit[j]

\* Where the longest run of characters of (outside of) a class that starts
\* at position i ends: the position after it.
RECURSIVE run_end(_, _, _, _)
run_end(text, i, class, inside) ==
    IF i <= Len(text) /\ ((text[i] \in class) = inside)
    THEN run_end(text, i + 1, class, inside)
    ELSE i

\* (https?://[^\s]+) at position i: the capture, <<>> when it does not match.
url_at(text, i) ==
    LET scheme == IF literal_at(text, i, Lit.Https) THEN Len(Lit.Https)
                  ELSE IF literal_at(text, i, Lit.Http) THEN Len(Lit.Http)
                  ELSE 0
        end == run_end(text, i + scheme, WhiteSpace, FALSE)
    IN  IF scheme > 0 /\ end > i + scheme THEN SubSeq(text, i, end - 1)
        ELSE <<>>

\* (\d+) at position i.
port_at(text, i) == SubSeq(text, i, run_end(text, i, Digits, TRUE) - 1)

\* The patterns in the order _detect_url tries them: the literals one of
\* which starts the match, whether \s* follows, and what is captured.
URL_PATTERNS ==
    << [lits |-> {Lit.Local}, space |-> TRUE, group |-> "url"],
       [lits |-> {Lit.Localhost}, space |-> FALSE, group |-> "port"],
       [lits |-> {Lit.Loopback}, space |-> FALSE, group |-> "port"],
       [lits |-> {Lit.RunningAt, Lit.RunningOn}, space |-> TRUE, group |-> "url"],
       [lits |-> {Lit.Listening}, space |-> TRUE, group |-> "url"] >>

\* The pattern matched at position i: group(1), <<>> when it does not match.
match_at(p, text, i) ==
    IF \E lit \in p.lits : literal_at(text, i, lit)
    THEN LET lit == CHOOSE lit \in p.lits : literal_at(text, i, lit)
             after == i + Len(lit)
             from == IF p.space THEN run_end(text, after, WhiteSpace, TRUE)
                     ELSE after
         IN  IF p.group = "url" THEN url_at(text, from) ELSE port_at(text, from)
    ELSE <<>>

\* re.search(pattern, output, re.IGNORECASE): group(1) of the leftmost match.
re_search(p, text) ==
    IF \E i \in 1..Len(text) : match_at(p, text, i) # <<>>
    THEN match_at(p, text,
                  CHOOSE i \in 1..Len(text) :
                      /\ match_at(p, text, i) # <<>>
                      /\ \A j \in 1..(i - 1) : match_at(p, text, j) = <<>>)
    ELSE <<>>

\* str.isdigit()
isdigit(url) == url # <<>> /\ \A i \in 1..Len(url) : url[i] \in Digits

\* A port that is returned as it was captured.
expand_never(url) == url

\* if url.isdigit(): url = f"http://localhost:{url}"
expand(url) == IF isdigit(url) THEN Lit.Localhost \o url ELSE url

\* _detect_url: the URL as an Optional, <<>> for None.
RECURSIVE detect_from(_, _)
detect_from(k, output) ==
    IF k > Len(URL_PATTERNS) THEN <<>>
    ELSE IF re_search(URL_PATTERNS[k], output) # <<>>
    THEN <<expand(re_search(URL_PATTERNS[k], output))>>
    ELSE detect_from(k + 1, output)

detect_url(output) == detect_from(1, output)

\* Texts a background command prints: '', 'ready',
\* 'Local: http://localhost:5173/', 'http://localhost:3000 up',
\* 'at http://127.0.0.1:8000', 'Server running at http://0.0.0.0:80',
\* 'server running on  https://h:1\n', 'Listening on http://[::]:9',
\* 'listening on http://x:1\nLOCAL:\thttps://y',
\* 'http://127.0.0.1:80 http://localhost:81', 'Local: ftp://z',
\* 'http://localhost:'.
Outputs ==
    [ Empty |->
          <<>>,
      Ready |->
          <<"r", "e", "a", "d", "y">>,
      Local |->
          <<"L", "o", "c", "a", "l", ":", " ", "h", "t", "t", "p", ":", "/", "/",
          "l", "o", "c", "a", "l", "h", "o", "s", "t", ":", "5", "1", "7", "3",
          "/">>,
      Localhost |->
          <<"h", "t", "t", "p", ":", "/", "/", "l", "o", "c", "a", "l", "h", "o",
          "s", "t", ":", "3", "0", "0", "0", " ", "u", "p">>,
      Loopback |->
          <<"a", "t", " ", "h", "t", "t", "p", ":", "/", "/", "1", "2", "7", ".",
          "0", ".", "0", ".", "1", ":", "8", "0", "0", "0">>,
      RunningAt |->
          <<"S", "e", "r", "v", "e", "r", " ", "r", "u", "n", "n", "i", "n", "g",
          " ", "a", "t", " ", "h", "t", "t", "p", ":", "/", "/", "0", ".", "0",
          ".", "0", ".", "0", ":", "8", "0">>,
      RunningOn |->
          <<"s", "e", "r", "v", "e", "r", " ", "r", "u", "n", "n", "i", "n", "g",
          " ", "o", "n", " ", " ", "h", "t", "t", "p", "s", ":", "/", "/", "h",
          ":", "1", "\n">>,
      Listening |->
          <<"L", "i", "s", "t", "e", "n", "i", "n", "g", " ", "o", "n", " ", "h",
          "t", "t", "p", ":", "/", "/", "[", ":", ":", "]", ":", "9">>,
      LocalLater |->
          <<"l", "i", "s", "t", "e", "n", "i", "n", "g", " ", "o", "n", " ", "h",
          "t", "t", "p", ":", "/", "/", "x", ":", "1", "\n", "L", "O", "C", "A",
          "L", ":", "\t", "h", "t", "t", "p", "s", ":", "/", "/", "y">>,
      BothPorts |->
          <<"h", "t", "t", "p", ":", "/", "/", "1", "2", "7", ".", "0", ".", "0",
          ".", "1", ":", "8", "0", " ", "h", "t", "t", "p", ":", "/", "/", "l",
          "o", "c", "a", "l", "h", "o", "s", "t", ":", "8", "1">>,
      OtherScheme |->
          <<"L", "o", "c", "a", "l", ":", " ", "f", "t", "p", ":", "/", "/", "z">>,
      NoPort |->
          <<"h", "t", "t", "p", ":", "/", "/", "l", "o", "c", "a", "l", "h", "o",
          "s", "t", ":">> ]












\* What the background command has printed when run_background looks.
InitialOutputs ==
    { Outputs.Empty, Outputs.Ready, Outputs.Local, Outputs.Localhost,
      Outputs.Loopback, Outputs.RunningAt, Outputs.RunningOn, Outputs.Listening,
      Outputs.LocalLater, Outputs.BothPorts, Outputs.OtherScheme, Outputs.NoPort }

\* Before the first background command: nothing harvested, nothing returned.
DetInit == [initial_output |-> <<>>, url |-> <<>>, calls |-> 0, before |-> <<>>]

\* run_background, from the harvest of the initial output to the result of
\* a command that is still running: the url key is there when a URL was
\* detected. before keeps the output and the URL of the call before this one.
Harvest(initial_output) ==
    /\ det' = [initial_output |-> initial_output,
               url |-> detect_url(initial_output),
               calls |-> IF det.calls < 2 THEN det.calls + 1 ELSE 2,
               before |-> IF det.calls = 0 THEN <<>>
                          ELSE <<[initial_output |-> det.initial_output,
                                  url |-> det.url]>>]
    /\ UNCHANGED <<orch_vars, fs, ex, turn, out, mgr_call, hist, life>>

DetNext == \E initial_output \in InitialOutputs : Harvest(initial_output)


(* The conversation history of one session (agent.py, send_message lines
   58-66 and the save of generate; agent_runner.py, stream_agent_events lines
   89-107): the rows of the messages table and the list of messages that a
   turn hands to the agent. Every message sent has a text of its own, here
   its number. *)

\* Bound on the messages sent to the session.
MaxTurns == 6

HumanMessage(content) == [type |-> "human", content |-> content]

AIMessage(content) == [type |-> "ai", content |-> content]

\* Lines 100-104: a row of role user becomes a HumanMessage, any other row
\* an AIMessage.
to_langchain(msg) ==
    IF msg.role = "user" THEN HumanMessage(msg.content)
    ELSE AIMessage(msg.content)

\* Lines 89-107: every row of the session in created_at order, converted,
\* then the current message.
agent_messages(history, message) ==
    Append([i \in 1..Len(history) |-> to_langchain(history[i])],
           HumanMessage(message))

\* A session that is ready, without messages.
HistInit == [pc |-> "ready", rows |-> <<>>, message |-> 0, messages |-> <<>>]

\* send_message, lines 58-66: the user row is stored and the text kept in
\* the slot.
HistSend ==
    /\ hist.pc = "ready"
    /\ hist.message < MaxTurns
    /\ hist' = [hist EXCEPT
                  !.pc = "busy",
                  !.message = @ + 1,
                  !.rows = Append(@, [role |-> "user", content |-> hist.message + 1])]
    /\ UNCHANGED <<orch_vars, fs, ex, turn, out, det, mgr_call, life>>

\* stream_agent_events up to graph.astream_events: the history is loaded
\* and handed to the agent with the message of the slot.
HistLoad ==
    /\ hist.pc = "busy"
    /\ hist' = [hist EXCEPT
                  !.pc = "agent",
                  !.messages = agent_messages(hist.rows, hist.message)]
    /\ UNCHANGED <<orch_vars, fs, ex, turn, out, det, mgr_call, life>>

\* generate, lines 204-225: the assistant row is stored when the turn had
\* content or steps, and the session is ready again.
HistSave(has_output) ==
    /\ hist.pc = "agent"
    /\ hist' = [hist EXCEPT
                  !.pc = "ready",
                  !.rows = IF has_output
                           THEN Append(@, [role |-> "assistant",
                                           content |-> -hist.message])
                           ELSE @]
    /\ UNCHANGED <<orch_vars, fs, ex, turn, out, det, mgr_call, life>>

HistNext ==
    \/ HistSend
    \/ HistLoad
    \/ \E has_output \in BOOLEAN : HistSave(has_output)

----------------------------------------------------------------------------
(* The life of a CommandLog (async_executor.py: run_command, run_background,
   _stream_output and terminate): one log at a time, its process, the reader
   task of a background command and one terminate call, each advancing from
   one await to the next. *)

\* Bound on the commands started.
MaxLogs == 2

\* Exit codes of a process that ends by itself.
ExitCodes == {0, 1}

SIGTERM == -15

SIGKILL == -9

\* No command was started yet.
LifeInit ==
    [cmd_id |-> 0, kind |-> "none", is_running |-> FALSE,
     exit_code |-> NoExitCode, has_process |-> FALSE,
     returncode |-> NoExitCode, signalled |-> FALSE,
     run |-> "idle", reader |-> "none", term |-> "idle"]

\* log.exit_code = ...; log.is_running = False (no await in between)
completed(log, exit_code) ==
    [log EXCEPT !.exit_code = exit_code, !.is_running = FALSE]

\* A reader that never waits for the process.
must_wait_never(returncode) == FALSE

\* _stream_output, line 306: if log.process.returncode is None
must_wait(returncode) == returncode = NoExitCode

\* The finally block of _stream_output, entered with the process in the
\* state given: it waits for the process first when it has not exited.
reader_finally(log) ==
    IF must_wait(log.returncode) THEN [log EXCEPT !.reader = "waiting"]
    ELSE [completed(log, log.returncode) EXCEPT !.reader = "done"]

\* run_command (blocking) or run_background up to the await of
\* create_subprocess_shell: the log is created and stored.
LifeCreate(kind) ==
    /\ life.run = "idle"
    /\ life.term = "idle"
    /\ life.kind = "none" \/ ~life.is_running
    /\ life.cmd_id < MaxLogs
    /\ life' = [LifeInit EXCEPT !.cmd_id = life.cmd_id + 1, !.kind = kind,
                                !.is_running = TRUE, !.run = "spawn"]
    /\ UNCHANGED <<orch_vars, fs, ex, turn, out, det, mgr_call, hist>>

\* create_subprocess_shell returns the process or raises (the except
\* Exception branches of run_command and run_background). run_background
\* keeps the process in the log and starts the reader task.
LifeSpawn(launched) ==
    /\ life.run = "spawn"
    /\ life' = IF ~launched
               THEN [completed(life, -1) EXCEPT !.run = "idle"]
               ELSE IF life.kind = "blocking"
               THEN [life EXCEPT !.run = "communicate"]
               ELSE [life EXCEPT !.run = "sleep", !.has_process = TRUE,
                                 !.reader = "reading"]
    /\ UNCHANGED <<orch_vars, fs, ex, turn, out, det, mgr_call, hist>>

\* run_command: proc.communicate() returns.
LifeCommunicate(returncode) ==
    /\ life.run = "communicate"
    /\ life' = [completed(life, returncode) EXCEPT !.run = "idle",
                                                   !.returncode = returncode]
    /\ UNCHANGED <<orch_vars, fs, ex, turn, out, det, mgr_call, hist>>

\* run_command: the timeout branch, proc.kill() and proc.wait().
LifeTimeout ==
    /\ life.run = "communicate"
    /\ life' = [completed(life, -1) EXCEPT !.run = "idle",
                                           !.returncode = SIGKILL]
    /\ UNCHANGED <<orch_vars, fs, ex, turn, out, det, mgr_call, hist>>

\* The process of a background command exits: by itself, or on the signal
\* that terminate sent.
ProcExits(returncode) ==
    /\ life.has_process
    /\ life.returncode = NoExitCode
    /\ returncode = SIGTERM => life.signalled
    /\ life' = [life EXCEPT !.returncode = returncode]
    /\ UNCHANGED <<orch_vars, fs, ex, turn, out, det, mgr_call, hist>>

\* _stream_output: both streams are at their end (the process exited or
\* closed them); the finally block is entered.
ReaderEof ==
    /\ life.reader = "reading"
    /\ life' = reader_finally(life)
    /\ UNCHANGED <<orch_vars, fs, ex, turn, out, det, mgr_call, hist>>

\* _stream_output, lines 306-310: process.wait() returned.
ReaderWaited ==
    /\ life.reader = "waiting"
    /\ life.returncode # NoExitCode
    /\ life' = [completed(life, life.returncode) EXCEPT !.reader = "done"]
    /\ UNCHANGED <<orch_vars, fs, ex, turn, out, det, mgr_call, hist>>

\* task.cancel() on the reader and the await of the task: cancelled in the
\* gather it runs its finally block, cancelled at the await inside the
\* finally block it ends there.
cancel_reader(log) ==
    IF log.reader = "reading" THEN reader_finally(log)
    ELSE IF log.reader = "waiting" THEN [log EXCEPT !.reader = "done"]
    ELSE log

\* run_background after the sleep: a process that has exited is answered
\* as completed once the reader task ended or, after a second, was
\* cancelled by wait_for; one that runs is answered as running.
LifeWake ==
    /\ life.run = "sleep"
    /\ life.reader # "waiting" \/ life.returncode = NoExitCode
    /\ life' = IF life.returncode = NoExitCode
               THEN [life EXCEPT !.run = "idle"]
               ELSE [cancel_reader(life) EXCEPT !.run = "idle"]
    /\ UNCHANGED <<orch_vars, fs, ex, turn, out, det, mgr_call, hist>>

\* terminate up to its first await: already_stopped for a log that is not
\* running, an error for one without process (a blocking command) and for
\* one whose process has exited (process.terminate() raises
\* ProcessLookupError); else the signal is sent.
TermCall ==
    /\ life.kind # "none"
    /\ life.term = "idle"
    /\ life' = IF life.is_running /\ life.has_process
                  /\ life.returncode = NoExitCode
               THEN [life EXCEPT !.term = "wait", !.signalled = TRUE]
               ELSE life
    /\ UNCHANGED <<orch_vars, fs, ex, turn, out, det, mgr_call, hist>>

\* terminate: three seconds passed without the process exiting; it is
\* killed and waited for.
TermKill ==
    /\ life.term = "wait"
    /\ life.returncode = NoExitCode
    /\ life' = [life EXCEPT !.returncode = SIGKILL]
    /\ UNCHANGED <<orch_vars, fs, ex, turn, out, det, mgr_call, hist>>

\* terminate: process.wait() returned; a reader task that is not done is
\* cancelled and awaited.
TermWaited ==
    /\ life.term = "wait"
    /\ life.returncode # NoExitCode
    /\ life' = [cancel_reader(life) EXCEPT !.term = "finish"]
    /\ UNCHANGED <<orch_vars, fs, ex, turn, out, det, mgr_call, hist>>

\* terminate, lines 456-458: is_running, exit_code and completed_at are set.
TermFinish ==
    /\ life.term = "finish"
    /\ life' = [completed(life, life.returncode) EXCEPT !.term = "idle"]
    /\ UNCHANGED <<orch_vars, fs, ex, turn, out, det, mgr_call, hist>>

LifeNext ==
    \/ \E kind \in {"blocking", "background"} : LifeCreate(kind)
    \/ \E launched \in BOOLEAN : LifeSpawn(launched)
    \/ \E returncode \in ExitCodes : LifeCommunicate(returncode)
    \/ LifeTimeout
    \/ \E returncode \in ExitCodes \cup {SIGTERM} : ProcExits(returncode)
    \/ ReaderEof
    \/ ReaderWaited
    \/ LifeWake
    \/ TermCall
    \/ TermKill
    \/ TermWaited
    \/ TermFinish

----------------------------------------------------------------------------
Init ==
    /\ db_sessions = [s \in AllSessionIds |-> NoRow]
    /\ db_messages = [s \in AllSessionIds |-> <<>>]
    /\ pending = [s \in AllSessionIds |-> NoSlot]
    /\ runner_mgr = [u \in Users |-> Null]
    /\ app_mgr = [u \in Users |-> Null]
    /\ sbx_live = {}
    /\ sbx_next = 1
    /\ req = [r \in Requests |-> Idle]
    /\ last = NoLast
    /\ sbx_log = <<>>
    /\ fs = FsInit
    /\ ex = ExInit
    /\ turn = TurnInit
    /\ out = OutInit
    /\ det = DetInit
    /\ mgr_call = NoMgrCall
    /\ hist = HistInit
    /\ life = LifeInit

\* Handlers are anonymous: a new request takes the lowest free place.
Free(r) ==
    /\ req[r] = Idle
    /\ \A q \in Requests : req[q] = Idle => r <= q

Begin(kind, u, s) == [Idle EXCEPT !.kind = kind, !.user = u, !.sid = s]

\* What `last` keeps of a response: an error response as it is, of the
\* others only that none was an error.
Returned(resp) == IF resp.code = 200 THEN NoLast ELSE resp

\* A handler runs once the response of the handler before it has been sent.
Delivered == last = NoLast

\* The framework sends the error response of the HTTPException just raised.
Reply ==
    /\ last # NoLast
    /\ last' = NoLast
    /\ UNCHANGED <<sbx_log, lib_vars>>
    /\ UNCHANGED <<db_sessions, db_messages, pending, runner_mgr, app_mgr,
                   sbx_live, sbx_next, req>>

\* POST /sessions; the id of the new row (a uuid4) is one of the free ids.
CreateSessionOf(ids, u) ==
    /\ Delivered
    /\ UNCHANGED <<sbx_log, lib_vars>>
    /\ \E s \in ids : db_sessions[s] = NoRow
    /\ LET s == CHOOSE x \in ids : db_sessions[x] = NoRow
       IN db_sessions' = [db_sessions EXCEPT ![s] =
              [NoRow EXCEPT !.user_id = u, !.status = "pending",
                            !.last_activity = "create_session"]]
    /\ last' = Returned(Ok("pending"))
    /\ UNCHANGED <<db_messages, pending, runner_mgr, app_mgr, sbx_live,
                   sbx_next, req>>

CreateSession(u) == CreateSessionOf(SessionIds, u)

\* POST /sessions/{id}/message, up to `await db.commit()`: the row is read
\* and checked; a rejected request ends here.
SendMessage(r, u, s, c) ==
    /\ Delivered
    /\ UNCHANGED <<sbx_log, lib_vars>>
    /\ Free(r)
    /\ LET session == FindSession(db_sessions, s, u)
           q == [Begin("send", u, s) EXCEPT !.content = c]
       IN IF session = NoRow
          THEN /\ last' = Returned(HTTPException(404, "Session not found"))
               /\ req' = req
          ELSE IF SendVerdict(session.status) # NoResp
          THEN /\ last' = Returned(SendVerdict(session.status))
               /\ req' = req
          ELSE /\ UserMessages + Cardinality(AcceptedInFlight) < MaxMessages
               /\ last' = NoLast
               /\ req' = [req EXCEPT ![r] =
                      [q EXCEPT !.pc = "send_commit",
                                !.needs_sandbox = (session.sandbox_id = Null)]]
    /\ UNCHANGED <<db_sessions, db_messages, pending, runner_mgr, app_mgr,
                   sbx_live, sbx_next>>

\* send_message from the commit on: the INSERT of the message and the UPDATE
\* of the row reach the store, then the slot is recorded.
SendCommit(r) ==
    /\ Delivered
    /\ UNCHANGED <<sbx_log, lib_vars>>
    /\ req[r].pc = "send_commit"
    /\ LET q == req[r] IN
       /\ db_messages' = [db_messages EXCEPT ![q.sid] =
              Append(@, [role |-> "user", content |-> q.content])]
       /\ db_sessions' = [db_sessions EXCEPT ![q.sid] =
              Touch([@ EXCEPT !.status = "busy"], "send_message")]
       /\ pending' = [pending EXCEPT ![q.sid] =
              [user_id |-> q.user, content |-> q.content,
               needs_sandbox |-> q.needs_sandbox]]
       /\ req' = [req EXCEPT ![r] = Idle]
       /\ last' = Returned(Ok("processing"))
    /\ UNCHANGED <<runner_mgr, app_mgr, sbx_live, sbx_next>>

\* GET /sessions/{id}/sse up to the StreamingResponse: the slot is read with
\* _pending_messages.get and stays in the map.
StreamEvents(r, u, s) ==
    /\ Delivered
    /\ UNCHANGED <<sbx_log, lib_vars>>
    /\ Free(r)
    /\ LET session == FindSession(db_sessions, s, u)
           q == Begin("sse", u, s)
       IN IF session = NoRow
          THEN /\ last' = Returned(HTTPException(404, "Session not found"))
               /\ req' = req
          ELSE IF pending[s] = NoSlot
          THEN /\ last' = Returned(HTTPException(400, "No pending message"))
               /\ req' = req
          ELSE /\ last' = Returned(Ok("stream"))
               /\ req' = [req EXCEPT ![r] =
                      [q EXCEPT !.pc = "gen_start",
                                !.user = pending[s].user_id,
                                !.content = pending[s].content,
                                !.needs_sandbox = pending[s].needs_sandbox]]
    /\ UNCHANGED <<db_sessions, db_messages, pending, runner_mgr, app_mgr,
                   sbx_live, sbx_next>>

\* GET /sessions/{id}/messages
ListMessages(u, s) ==
    /\ Delivered
    /\ UNCHANGED <<sbx_log, lib_vars>>
    /\ last' = Returned(IF FindSession(db_sessions, s, u) = NoRow
                   THEN HTTPException(404, "Session not found")
                   ELSE Ok("messages"))
    /\ UNCHANGED <<db_sessions, db_messages, pending, runner_mgr, app_mgr,
                   sbx_live, sbx_next, req>>

\* PATCH /sessions/{id}; title "none" is a body without title.
UpdateSession(u, s, title) ==
    /\ Delivered
    /\ UNCHANGED <<sbx_log, lib_vars>>
    /\ LET session == FindSession(db_sessions, s, u) IN
       IF session = NoRow
       THEN /\ last' = Returned(HTTPException(404, "Session not found"))
            /\ db_sessions' = db_sessions
       ELSE /\ last' = Returned(Ok("session"))
            /\ db_sessions' = [db_sessions EXCEPT ![s] =
                   IF title = "none" \/ title = @.title THEN @
                   ELSE Touch([@ EXCEPT !.title = title], "update_session")]
    /\ UNCHANGED <<db_messages, pending, runner_mgr, app_mgr, sbx_live,
                   sbx_next, req>>

\* DELETE /sessions/{id}: routers/sessions.py is included before
\* routers/agent.py, so its handler serves the route. It destroys the user's
\* sandbox in the manager of app.state.
DeleteSession(u, s) ==
    /\ Delivered
    /\ UNCHANGED lib_vars
    /\ LET session == FindSession(db_sessions, s, u) IN
       IF session = NoRow
       THEN /\ last' = Returned(HTTPException(404, "Session not found"))
            /\ UNCHANGED <<db_sessions, app_mgr, sbx_live, sbx_log>>
       ELSE /\ last' = Returned(Ok("terminated"))
            /\ app_mgr' = MgrDestroy(app_mgr, u)
            /\ sbx_live' = LiveAfterDestroy(app_mgr, sbx_live, u)
            /\ sbx_log' = LogAfterDestroy(app_mgr, sbx_log, u)
            /\ db_sessions' = [db_sessions EXCEPT ![s] =
                   IF @.status = "terminated" THEN @
                   ELSE Touch([@ EXCEPT !.status = "terminated"],
                              "delete_session")]
    /\ UNCHANGED <<db_messages, pending, runner_mgr, sbx_next, req>>

Emit(q, e) == [q EXCEPT !.events = Append(@, e)]

\* Lines 129-130: `preview_url` is yielded when a URL is known.
EmitPreview(q) == IF q.preview_url # Null THEN Emit(q, "preview_url") ELSE q

\* The locals of generate that are dead once the try block is left.
Forget(q) == [q EXCEPT !.preview_url = Null, !.has_output = FALSE]

\* The `except Exception` of generate (lines 227-228): yield `error`.
Raise(q, why) ==
    [Forget(Emit(q, "error")) EXCEPT !.pc = "gen_except", !.failed = why]

\* The try block is left for the finally block.
Leave(q) == [Forget(q) EXCEPT !.pc = "gen_finally"]

\* SandboxManager.get_preview_url: "https://" + the provider's host for the
\* sandbox; the URL of sandbox k is coded k.
PreviewUrl(sandbox_id) == sandbox_id

\* generate(), first resumption with needs_sandbox: create_sandbox runs
\* SandboxManager.create and get_preview_url on the runner's manager without
\* suspending. create destroys the user's previous sandbox, then asks the
\* provider for a new one, which may raise. A failure is caught at line 114
\* and yields `error`. needs_sandbox is not read again.
GenCreateSandbox(r) ==
    /\ Delivered
    /\ UNCHANGED lib_vars
    /\ req[r].pc = "gen_start"
    /\ req[r].needs_sandbox
    /\ LET q == req[r]
           u == q.user
           live == LiveAfterDestroy(runner_mgr, sbx_live, u)
           log == LogAfterDestroy(runner_mgr, sbx_log, u)
       IN \/ /\ runner_mgr' = [runner_mgr EXCEPT ![u] = sbx_next]
             /\ sbx_live' = live \cup {sbx_next}
             /\ sbx_next' = sbx_next + 1
             /\ sbx_log' = LogCreate(log, u)
             /\ req' = [req EXCEPT ![r] =
                    [q EXCEPT !.pc = "gen_attach",
                              !.needs_sandbox = FALSE,
                              !.sandbox_id = sbx_next,
                              !.preview_url = PreviewUrl(sbx_next)]]
          \/ /\ runner_mgr' = MgrDestroy(runner_mgr, u)
             /\ sbx_live' = live
             /\ sbx_next' = sbx_next
             /\ sbx_log' = log
             /\ req' = [req EXCEPT ![r] =
                    [Emit(q, "error") EXCEPT !.pc = "gen_fail_done",
                                             !.needs_sandbox = FALSE,
                                             !.failed = "sandbox"]]
    /\ last' = NoLast
    /\ UNCHANGED <<db_sessions, db_messages, pending, app_mgr>>

\* Lines 104-112 and 129-130: sandbox_id and preview_url are written to the
\* row, then the URL is yielded.
GenAttach(r) ==
    /\ Delivered
    /\ UNCHANGED <<sbx_log, lib_vars>>
    /\ req[r].pc = "gen_attach"
    /\ LET q == req[r] IN
       /\ db_sessions' = [db_sessions EXCEPT ![q.sid] =
              IF @ = NoRow THEN @
              ELSE Touch([@ EXCEPT !.sandbox_id = q.sandbox_id,
                                   !.preview_url = q.preview_url],
                         "stream_events")]
       /\ req' = [req EXCEPT ![r] =
              [EmitPreview(q) EXCEPT !.pc = "gen_agent_start",
                                     !.sandbox_id = Null]]
    /\ last' = NoLast
    /\ UNCHANGED <<db_messages, pending, runner_mgr, app_mgr, sbx_live,
                   sbx_next>>

\* Lines 115-117: after `error`, yield `done`, then return through finally.
GenFailDone(r) ==
    /\ Delivered
    /\ UNCHANGED <<sbx_log, lib_vars>>
    /\ req[r].pc = "gen_fail_done"
    /\ req' = [req EXCEPT ![r] = Leave(Emit(@, "done"))]
    /\ last' = NoLast
    /\ UNCHANGED <<db_sessions, db_messages, pending, runner_mgr, app_mgr,
                   sbx_live, sbx_next>>

\* Lines 119-130: without needs_sandbox the URL comes from the row.
GenLoadPreview(r) ==
    /\ Delivered
    /\ UNCHANGED <<sbx_log, lib_vars>>
    /\ req[r].pc = "gen_start"
    /\ ~req[r].needs_sandbox
    /\ LET q == [req[r] EXCEPT
                    !.preview_url = db_sessions[req[r].sid].preview_url]
       IN req' = [req EXCEPT ![r] =
              [EmitPreview(q) EXCEPT !.pc = "gen_agent_start"]]
    /\ last' = NoLast
    /\ UNCHANGED <<db_sessions, db_messages, pending, runner_mgr, app_mgr,
                   sbx_live, sbx_next>>

\* stream_agent_events up to the history load: get_user_sandbox raises
\* ValueError when the runner's manager holds no sandbox for the user.
GenAgentStart(r) ==
    /\ Delivered
    /\ UNCHANGED <<sbx_log, lib_vars>>
    /\ req[r].pc = "gen_agent_start"
    /\ req' = [req EXCEPT ![r] =
           IF runner_mgr[req[r].user] = Null
           THEN Raise(@, "no_sandbox")
           ELSE [@ EXCEPT !.pc = "gen_agent"]]
    /\ last' = NoLast
    /\ UNCHANGED <<db_sessions, db_messages, pending, runner_mgr, app_mgr,
                   sbx_live, sbx_next>>

AgentEventTypes == {"user_message", "tool_start", "tool_end"}

\* One event of the agent runtime, forwarded by generate (lines 136-195): a
\* user_message adds to assistant_content, the tool_start of a visible tool
\* adds a step to collected_steps, a tool_end adds to neither. The runtime
\* ends a tool only after it started one. `has_output` is the condition of
\* line 206, `assistant_content or collected_steps`; `events` keeps the
\* stream's preview_url, error and done events.
GenAgentEvent(r, e) ==
    /\ Delivered
    /\ UNCHANGED <<sbx_log, lib_vars>>
    /\ req[r].pc = "gen_agent"
    /\ e = "tool_end" => req[r].has_output
    /\ req' = [req EXCEPT ![r].has_output = @ \/ e \in {"user_message", "tool_start"}]
    /\ last' = NoLast
    /\ UNCHANGED <<db_sessions, db_messages, pending, runner_mgr, app_mgr,
                   sbx_live, sbx_next>>

\* The agent runtime (LLM provider, graph) raises during the turn.
GenAgentRaise(r) ==
    /\ Delivered
    /\ UNCHANGED <<sbx_log, lib_vars>>
    /\ req[r].pc = "gen_agent"
    /\ req' = [req EXCEPT ![r] = Raise(@, "agent")]
    /\ last' = NoLast
    /\ UNCHANGED <<db_sessions, db_messages, pending, runner_mgr, app_mgr,
                   sbx_live, sbx_next>>

\* The runtime's stream ends: stream_agent_events yields `done`, generate
\* forwards it (lines 197-199).
GenAgentDone(r) ==
    /\ Delivered
    /\ UNCHANGED <<sbx_log, lib_vars>>
    /\ req[r].pc = "gen_agent"
    /\ req' = [req EXCEPT ![r] = [Emit(@, "done") EXCEPT !.pc = "gen_save"]]
    /\ last' = NoLast
    /\ UNCHANGED <<db_sessions, db_messages, pending, runner_mgr, app_mgr,
                   sbx_live, sbx_next>>

\* Lines 204-225: the assistant message (if there is content or a step)
\* and the row are written in one transaction.
GenSave(r) ==
    /\ Delivered
    /\ UNCHANGED <<sbx_log, lib_vars>>
    /\ req[r].pc = "gen_save"
    /\ LET q == req[r] IN
       /\ db_messages' =
              IF q.has_output
              THEN [db_messages EXCEPT ![q.sid] =
                       Append(@, [role |-> "assistant", content |-> "reply"])]
              ELSE db_messages
       /\ db_sessions' = [db_sessions EXCEPT ![q.sid] =
              IF @ = NoRow THEN @
              ELSE Touch([@ EXCEPT !.status = "ready",
                                   !.preview_url =
                                       IF q.preview_url # Null
                                       THEN q.preview_url ELSE @],
                         "stream_events")]
       /\ req' = [req EXCEPT ![r] = Leave(q)]
    /\ last' = NoLast
    /\ UNCHANGED <<pending, runner_mgr, app_mgr, sbx_live, sbx_next>>

\* The store raises while the turn is persisted: nothing is written.
GenSaveRaise(r) ==
    /\ Delivered
    /\ UNCHANGED <<sbx_log, lib_vars>>
    /\ req[r].pc = "gen_save"
    /\ req' = [req EXCEPT ![r] = Raise(@, "persist")]
    /\ last' = NoLast
    /\ UNCHANGED <<db_sessions, db_messages, pending, runner_mgr, app_mgr,
                   sbx_live, sbx_next>>

\* Lines 229-236: the handler sets the status to ready.
GenExcept(r) ==
    /\ Delivered
    /\ UNCHANGED <<sbx_log, lib_vars>>
    /\ req[r].pc = "gen_except"
    /\ db_sessions' = [db_sessions EXCEPT ![req[r].sid] =
           IF @ = NoRow \/ @.status = "ready" THEN @
           ELSE Touch([@ EXCEPT !.status = "ready"], "stream_events")]
    /\ req' = [req EXCEPT ![r] = Leave(@)]
    /\ last' = NoLast
    /\ UNCHANGED <<db_messages, pending, runner_mgr, app_mgr, sbx_live,
                   sbx_next>>

\* Lines 237-238: the finally block, reached by the return of line 117 or
\* after the store session of the last write was closed. The generator ends.
GenFinally(r) ==
    /\ Delivered
    /\ UNCHANGED <<sbx_log, lib_vars>>
    /\ req[r].pc = "gen_finally"
    /\ pending' = [pending EXCEPT ![req[r].sid] = NoSlot]
    /\ req' = [req EXCEPT ![r] = Idle]
    /\ last' = NoLast
    /\ UNCHANGED <<db_sessions, db_messages, runner_mgr, app_mgr, sbx_live,
                   sbx_next>>

Suspended == {"gen_attach", "gen_fail_done", "gen_agent_start", "gen_agent",
              "gen_save", "gen_except"}

\* The subscriber disconnects: CancelledError (at an await) or GeneratorExit
\* (at a yield) is raised in the running generator. Neither is an Exception,
\* so only the finally block runs.
Disconnect(r) ==
    /\ Delivered
    /\ UNCHANGED <<sbx_log, lib_vars>>
    /\ req[r].pc \in Suspended
    /\ pending' = [pending EXCEPT ![req[r].sid] = NoSlot]
    /\ req' = [req EXCEPT ![r] = Idle]
    /\ last' = NoLast
    /\ UNCHANGED <<db_sessions, db_messages, runner_mgr, app_mgr, sbx_live,
                   sbx_next>>

Next ==
    \/ \E u \in Owners : CreateSession(u)
    \/ \E r \in Requests, u \in Users, s \in SessionIds, c \in Contents :
           SendMessage(r, u, s, c)
    \/ \E r \in Requests : SendCommit(r)
    \/ \E r \in Requests, u \in Users, s \in SessionIds : StreamEvents(r, u, s)
    \/ \E u \in Users, s \in SessionIds : ListMessages(u, s)
    \/ \E u \in Users, s \in SessionIds, title \in Titles \cup {"none"} :
           UpdateSession(u, s, title)
    \/ \E u \in Users, s \in SessionIds : DeleteSession(u, s)
    \/ \E r \in Requests : GenCreateSandbox(r)
    \/ \E r \in Requests : GenAttach(r)
    \/ \E r \in Requests : GenFailDone(r)
    \/ \E r \in Requests : GenLoadPreview(r)
    \/ \E r \in Requests : GenAgentStart(r)
    \/ \E r \in Requests, e \in AgentEventTypes : GenAgentEvent(r, e)
    \/ \E r \in Requests : GenAgentRaise(r)
    \/ \E r \in Requests : GenAgentDone(r)
    \/ \E r \in Requests : GenSave(r)
    \/ \E r \in Requests : GenSaveRaise(r)
    \/ \E r \in Requests : GenExcept(r)
    \/ \E r \in Requests : GenFinally(r)
    \/ \E r \in Requests : Disconnect(r)
    \/ Reply

Spec == Init /\ [][Next]_vars

\* Two sessions of one user, each with its first message and its turn run
\* without failure of the agent or of the store: the handlers that create
\* sessions, accept messages and run the subscription.
TwoNext ==
    \/ \E u \in Owners : CreateSessionOf(AllSessionIds, u)
    \/ \E r \in Requests, u \in Owners, s \in AllSessionIds, c \in Contents :
           SendMessage(r, u, s, c)
    \/ \E r \in Requests : SendCommit(r)
    \/ \E r \in Requests, u \in Owners, s \in AllSessionIds :
           StreamEvents(r, u, s)
    \/ \E r \in Requests : GenCreateSandbox(r)
    \/ \E r \in Requests : GenAttach(r)
    \/ \E r \in Requests : GenFailDone(r)
    \/ \E r \in Requests : GenLoadPreview(r)
    \/ \E r \in Requests : GenAgentStart(r)
    \/ \E r \in Requests : GenAgentDone(r)
    \/ \E r \in Requests : GenSave(r)
    \/ \E r \in Requests : GenExcept(r)
    \/ \E r \in Requests : GenFinally(r)
    \/ Reply

SpecTwo == Init /\ [][TwoNext]_vars

----------------------------------------------------------------------------
(* The SandboxManager by itself (src/server/sandbox/sandbox.py): the calls
   create, get_or_create, destroy and destroy_all on one instance, here the
   one of agent_runner. sandbox.kill() may raise; destroy swallows it and
   the sandbox then stays alive at the provider. *)

\* What is alive after destroy: kill either ends the sandbox or raises.
KillOutcomes(mgr, live, u) == {LiveAfterDestroy(mgr, live, u), live}

\* SandboxManager.create: destroy the user's sandbox if there is one, ask the
\* provider for a new one (which may raise), register it.
MgrCreate(u) ==
    /\ sbx_next <= MaxSandboxes
    /\ \E live \in KillOutcomes(runner_mgr, sbx_live, u) :
          LET log == LogAfterDestroy(runner_mgr, sbx_log, u) IN
          \/ /\ runner_mgr' = [runner_mgr EXCEPT ![u] = sbx_next]
             /\ sbx_live' = live \cup {sbx_next}
             /\ sbx_next' = sbx_next + 1
             /\ sbx_log' = LogCreate(log, u)
          \/ /\ runner_mgr[u] # Null
             /\ runner_mgr' = MgrDestroy(runner_mgr, u)
             /\ sbx_live' = live
             /\ sbx_next' = sbx_next
             /\ sbx_log' = log
    /\ UNCHANGED <<db_sessions, db_messages, pending, app_mgr, req, last,
                   lib_vars>>

\* SandboxManager.get_or_create: the user's sandbox if there is one (no state
\* changes), else create.
MgrGetOrCreate(u) ==
    /\ runner_mgr[u] = Null
    /\ MgrCreate(u)

\* A destroy that answers False when the provider's kill raised.
destroy_returns_killed(mgr, u, raised) == mgr[u] # Null /\ ~raised

\* SandboxManager.destroy, its return value: False at line 97 for a user who
\* is not in the map, True at line 106 whether or not kill() raised.
destroy_returns(mgr, u, raised) == mgr[u] # Null

\* SandboxManager.destroy: for a user who has no sandbox nothing changes;
\* for one who has, the mapping is popped and kill() is called, which ends
\* the sandbox or raises.
MgrDestroyCall(u) ==
    \E raised \in BOOLEAN :
        /\ raised => runner_mgr[u] # Null
        /\ runner_mgr' = MgrDestroy(runner_mgr, u)
        /\ sbx_live' = IF raised THEN sbx_live
                       ELSE LiveAfterDestroy(runner_mgr, sbx_live, u)
        /\ sbx_log' = LogAfterDestroy(runner_mgr, sbx_log, u)
        /\ mgr_call' = [op |-> "destroy", user |-> u, before |-> runner_mgr,
                        after |-> runner_mgr', raised |-> raised,
                        returned |-> destroy_returns(runner_mgr, u, raised)]
        /\ UNCHANGED <<db_sessions, db_messages, pending, app_mgr, req, last,
                       sbx_next, fs, ex, turn, out, det, hist, life>>

\* SandboxManager.destroy_all: destroy for every user in the map.
MgrDestroyAll ==
    /\ \E u \in Users : runner_mgr[u] # Null
    /\ runner_mgr' = [u \in Users |-> Null]
    /\ \E failed \in SUBSET ({runner_mgr[u] : u \in Users} \ {Null}) :
          sbx_live' = (sbx_live \ {runner_mgr[u] : u \in Users}) \cup failed
    /\ sbx_log' = [i \in 1..Len(sbx_log) |->
                      IF \E u \in Users : runner_mgr[u] = i
                      THEN [sbx_log[i] EXCEPT !.kills = @ + 1]
                      ELSE sbx_log[i]]
    /\ UNCHANGED <<db_sessions, db_messages, pending, app_mgr, req, last,
                   sbx_next, lib_vars>>

MgrNext ==
    \/ \E u \in Users : MgrCreate(u)
    \/ \E u \in Users : MgrGetOrCreate(u)
    \/ \E u \in Users : MgrDestroyCall(u)
    \/ MgrDestroyAll

SpecMgr == Init /\ [][MgrNext]_vars

SpecFs == Init /\ [][FsNext]_vars

SpecLaunch == Init /\ [][LaunchNext]_vars

SpecLog == Init /\ [][LogNext]_vars

SpecProc == Init /\ [][ProcNext]_vars

SpecCache == Init /\ [][CacheNext]_vars

SpecTurn == Init /\ [][TurnNext]_vars

SpecOut == Init /\ [][OutNext]_vars

SpecDet == Init /\ [][DetNext]_vars

SpecHist == Init /\ [][HistNext]_vars

SpecLife == Init /\ [][LifeNext]_vars

----------------------------------------------------------------------------
(* Application shutdown (src/server/api/main.py, lifespan after the yield):
   destroy_all on app.state.sandbox_manager, then the process ends. The
   handlers in flight, the pending messages and both managers' maps live in
   the process and go with it; the store and the provider's sandboxes do
   not. A later start of the application finds them as they were left. *)
Shutdown ==
    /\ app_mgr' = [u \in Users |-> Null]
    /\ sbx_live' = sbx_live \ {app_mgr[u] : u \in Users}
    /\ sbx_log' = [i \in 1..Len(sbx_log) |->
                      IF \E u \in Users : app_mgr[u] = i
                      THEN [sbx_log[i] EXCEPT !.kills = @ + 1]
                      ELSE sbx_log[i]]
    /\ runner_mgr' = [u \in Users |-> Null]
    /\ pending' = [s \in AllSessionIds |-> NoSlot]
    /\ req' = [r \in Requests |-> Idle]
    /\ last' = NoLast
    /\ UNCHANGED <<db_sessions, db_messages, sbx_next, lib_vars>>

DownNext ==
    \/ Next
    \/ Shutdown

SpecDown == Init /\ [][DownNext]_vars

----------------------------------------------------------------------------
(* The provider gives no host for the new sandbox: get_host raises in
   SandboxManager.get_preview_url (src/server/sandbox/sandbox.py), which
   returns None, and create_sandbox_for_session returns (sandbox_id, None). *)
GenCreateSandboxNoUrl(r) ==
    /\ Delivered
    /\ UNCHANGED lib_vars
    /\ req[r].pc = "gen_start"
    /\ req[r].needs_sandbox
    /\ LET q == req[r]
           u == q.user
       IN /\ runner_mgr' = [runner_mgr EXCEPT ![u] = sbx_next]
          /\ sbx_live' = LiveAfterDestroy(runner_mgr, sbx_live, u) \cup {sbx_next}
          /\ sbx_next' = sbx_next + 1
          /\ sbx_log' = LogCreate(LogAfterDestroy(runner_mgr, sbx_log, u), u)
          /\ req' = [req EXCEPT ![r] =
                 [q EXCEPT !.pc = "gen_attach",
                           !.needs_sandbox = FALSE,
                           !.sandbox_id = sbx_next,
                           !.preview_url = Null]]
    /\ last' = NoLast
    /\ UNCHANGED <<db_sessions, db_messages, pending, app_mgr>>

UrlNext ==
    \/ Next
    \/ \E r \in Requests : GenCreateSandboxNoUrl(r)

SpecUrl == Init /\ [][UrlNext]_vars

----------------------------------------------------------------------------
(* Properties *)

NotFound == HTTPException(404, "Session not found")

Dones(q) == Cardinality({i \in 1..Len(q.events) : q.events[i] = "done"})

AssistantRows(msgs) == {i \in 1..Len(msgs) : msgs[i].role = "assistant"}

\* C1: a subscription that runs to its end has emitted exactly one done
\* event, and it leaves the session's status ready.
C1_OneDoneThenReady ==
    [][\A r \in Requests : GenFinally(r) =>
          /\ Dones(req[r]) = 1
          /\ db_sessions'[req[r].sid].status = "ready"]_vars

\* C2: of the send_message requests to one session that are in flight
\* together, at most one is accepted (has passed the status checks and is
\* about to commit).
C2_AtMostOneAccepted ==
    \A r1, r2 \in Requests :
        (r1 # r2 /\ req[r1].pc = "send_commit" /\ req[r2].pc = "send_commit")
            => req[r1].sid # req[r2].sid

\* C3: at most one agent turn is in flight per session: no two generators
\* stream agent events for the same session.
C3_OneTurnPerSession ==
    \A r1, r2 \in Requests :
        (r1 # r2 /\ req[r1].pc = "gen_agent" /\ req[r2].pc = "gen_agent")
            => req[r1].sid # req[r2].sid

\* C4: a session's status is busy if and only if the pending-message map
\* holds a slot for the session. Stated for the states where the claim is
\* weakest: the session is not deleted and none of its handlers is in flight
\* (so none is between two of its writes).
C4_BusyIffSlot ==
    \A s \in SessionIds :
        ( /\ db_sessions[s].status # "terminated"
          /\ \A r \in Requests : req[r].sid # s ) =>
            ((db_sessions[s].status = "busy") <=> (pending[s] # NoSlot))

\* C5: when the subscription of a turn whose sandbox creation failed ends, it
\* has emitted error then done, the status is ready again, the slot is
\* released and no assistant message is stored.
C5_SandboxFailureRecovers ==
    [][\A r \in Requests : (GenFinally(r) /\ req[r].failed = "sandbox") =>
          /\ req[r].events = <<"error", "done">>
          /\ db_sessions'[req[r].sid].status = "ready"
          /\ pending'[req[r].sid] = NoSlot
          /\ AssistantRows(db_messages'[req[r].sid]) = {}]_vars

\* C6: when the subscription of a turn that met an orchestrator-level error
\* ends, its error event was followed by a done event that closed the stream,
\* and the session is no longer busy.
C6_ErrorThenDoneUnlocks ==
    [][\A r \in Requests : (GenFinally(r) /\ req[r].failed # "none") =>
          /\ Len(req[r].events) >= 2
          /\ SubSeq(req[r].events, Len(req[r].events) - 1,
                    Len(req[r].events)) = <<"error", "done">>
          /\ db_sessions'[req[r].sid].status # "busy"]_vars

\* C7: when the subscriber disconnects during a turn, the slot is cleared,
\* the status is ready again and no message of the turn is stored.
C7_DisconnectUnwinds ==
    [][\A r \in Requests : Disconnect(r) =>
          /\ pending'[req[r].sid] = NoSlot
          /\ db_sessions'[req[r].sid].status = "ready"
          /\ db_messages' = db_messages]_vars

\* C8: send_message by the owner on a busy session answers 409, on a session
\* of any other status than pending or ready 400 (so for creating, error and
\* terminated); the rejected request stores no message, leaves the row with
\* its status and last_activity as they were, and records no slot.
C8_RejectedSendChangesNothing ==
    [][/\ \A st \in {"creating", "error", "terminated"} :
             SendVerdict(st).code = 400
       /\ \A r \in Requests, u \in Users, s \in SessionIds, c \in Contents :
             ( /\ db_sessions[s].user_id = u
               /\ db_sessions[s].status \notin {"pending", "ready"}
               /\ SendMessage(r, u, s, c) ) =>
                 /\ last'.code = IF db_sessions[s].status = "busy"
                                 THEN 409 ELSE 400
                 /\ UNCHANGED <<db_sessions, db_messages, pending, runner_mgr,
                                app_mgr, sbx_live, sbx_next, req, sbx_log>>]_vars

\* A send_message was just answered 409 while the session is busy and holds
\* a slot.
C8_Witness ==
    /\ last.code = 409
    /\ \E s \in SessionIds :
          db_sessions[s].status = "busy" /\ pending[s] # NoSlot

\* A session operation requested by user u on session s.
SessionOperation(u, s) ==
    \/ \E r \in Requests, c \in Contents : SendMessage(r, u, s, c)
    \/ \E r \in Requests : StreamEvents(r, u, s)
    \/ ListMessages(u, s)
    \/ \E title \in Titles \cup {"none"} : UpdateSession(u, s, title)
    \/ DeleteSession(u, s)

\* C9: a session operation by a user who does not own the session answers
\* the 404 that a session which does not exist answers, and changes neither
\* the row, the messages, the slot nor any sandbox.
C9_NonOwnerSeesNotFound ==
    [][\A u \in Users, s \in SessionIds :
          ( /\ db_sessions[s] = NoRow \/ db_sessions[s].user_id # u
            /\ SessionOperation(u, s) ) =>
              /\ last' = NotFound
              /\ UNCHANGED <<db_sessions, db_messages, pending, runner_mgr,
                             app_mgr, sbx_live, sbx_next, req, sbx_log>>]_vars

\* A request was just answered 404 although every session exists, one of
\* them busy with a slot and a live sandbox of its owner.
C9_Witness ==
    /\ last = NotFound
    /\ \A s \in SessionIds : db_sessions[s] # NoRow
    /\ \E s \in SessionIds :
          /\ pending[s] # NoSlot
          /\ runner_mgr[db_sessions[s].user_id] \in sbx_live

\* C10: after DELETE by the owner the status is terminated, the sandbox
\* that first-message provisioning created for the user is killed at the
\* provider, and the manager of the agent pipeline no longer holds it.
C10_DeleteDestroysSandbox ==
    [][\A u \in Users, s \in SessionIds :
          (DeleteSession(u, s) /\ FindSession(db_sessions, s, u) # NoRow) =>
              /\ db_sessions'[s].status = "terminated"
              /\ runner_mgr[u] \notin sbx_live'
              /\ runner_mgr'[u] = Null]_vars

\* C11: the manager maps each user to at most one sandbox (its own, and one
\* it has not killed), and create(user) for a user who already has a sandbox
\* calls kill on that sandbox exactly once and, when the provider delivers,
\* registers a sandbox the provider never handed out before.
AtMostOneSandbox ==
    /\ \A u \in Users : runner_mgr[u] # Null =>
          /\ runner_mgr[u] \in 1..Len(sbx_log)
          /\ sbx_log[runner_mgr[u]].user = u
          /\ sbx_log[runner_mgr[u]].kills = 0
    /\ \A u, v \in Users :
          (u # v /\ runner_mgr[u] # Null) => runner_mgr[u] # runner_mgr[v]

C11_CreateReplacesSandbox ==
    [][ /\ AtMostOneSandbox'
        /\ \A u \in Users : (runner_mgr[u] # Null /\ MgrCreate(u)) =>
              /\ sbx_log[runner_mgr[u]].kills = 0
              /\ sbx_log'[runner_mgr[u]].kills = 1
              /\ runner_mgr'[u] # Null =>
                    /\ runner_mgr'[u] \notin 1..Len(sbx_log)
                    /\ runner_mgr'[u] # runner_mgr[u] ]_vars

C11_Witness ==
    \E u \in Users : \E old \in 1..Len(sbx_log) :
        /\ runner_mgr[u] # Null
        /\ old < runner_mgr[u]
        /\ sbx_log[old].user = u
        /\ sbx_log[old].kills = 1

\* C12: on application shutdown every sandbox that first-message
\* provisioning created and that was not destroyed since is destroyed, so
\* none is alive at the provider once the application is down.
C12_ShutdownDestroysSandboxes ==
    [][Shutdown => sbx_live' = {}]_vars

\* C13: on one FSTools instance a read_file that immediately follows a
\* successful write_file of content c to a path with the same normal form
\* (the same spelling or another one, whatever the cache holds) returns c.
C13_ReadAfterWrite ==
    (/\ fs.last.op = "read"
     /\ fs.last.follows # <<>>
     /\ normalize_path(fs.last.follows[1].path) = normalize_path(fs.last.path))
        => fs.last.ret = <<fs.last.follows[1].content>>

C13_Witness ==
    /\ fs.last.op = "read"
    /\ fs.last.follows # <<>>
    /\ fs.last.follows[1].path # fs.last.path
    /\ normalize_path(fs.last.follows[1].path) = normalize_path(fs.last.path)
    /\ fs.last.follows[1].content = ""
    /\ fs.last.ret = <<"">>
    /\ Len(fs.entries) = FsMaxEntries

\* C14: for every command that matches a blocklist pattern and for every
\* value of confirmed, run_command and run_background spawn no subprocess,
\* create no CommandLog entry and answer the BLOCKED security error.
MatchesBlocklist(command) == \E p \in BLOCKED_PATTERNS : search(p, command)

BlockedCommands == {c \in Commands : MatchesBlocklist(c)}

C14_BlockedNeverRuns ==
    [][ \A command \in BlockedCommands :
          (/\ ex'.last.command = command
           /\ \E confirmed, cwd_ok \in BOOLEAN :
                 \/ RunCommand(command, confirmed, cwd_ok)
                 \/ RunBackground(command, cwd_ok)) =>
                /\ ex'.logs = ex.logs
                /\ ex'.next_id = ex.next_id
                /\ ~ex'.last.spawned
                /\ ex'.last.kind = "BLOCKED" ]_vars

C14_Witness ==
    /\ ex.last.op = "run_command"
    /\ ex.last.confirmed
    /\ MatchesBlocklist(ex.last.command)
    /\ ex.last.kind = "BLOCKED"
    /\ ex.logs # <<>>

\* C15: the executor never launches a command that matches a
\* confirmation-required pattern unless the caller set confirmed=true,
\* whichever launch operation is used.
MatchesConfirm(command) == \E p \in CONFIRM_PATTERNS : search(p, command)

C15_DangerousNeedsConfirmation ==
    (ex.last.spawned /\ MatchesConfirm(ex.last.command)) => ex.last.confirmed

\* C19 as stated: once read_log has answered the pagination limit for a
\* cmd_id (its call number max_pagination_calls + 1), every further read_log
\* for that cmd_id answers the pagination limit again.
C19_FurtherReadsAnswerLimit ==
    [][ \A cmd_id \in 1..ExMaxCommands :
          (/\ cmd_id \in ex.limited
           /\ ex'.last.op = "read_log"
           /\ ex'.last.cmd_id = cmd_id
           /\ ReadLog(cmd_id)) => ex'.last.kind = "pagination limit" ]_vars

\* C19, amended: after the pagination limit has been answered for a cmd_id,
\* no further read_log for it returns lines: it answers the pagination limit
\* while the log is in the store and "not found" once the log has expired or
\* been evicted. A read that returns lines leaves the counter at most at
\* max_pagination_calls, every read of a stored log adds one to the counter,
\* and no step lowers the counter of a log.
C19_NoLinesPastLimit ==
    [][ /\ \A cmd_id \in 1..ExMaxCommands :
              (/\ ex'.last.op = "read_log"
               /\ ex'.last.cmd_id = cmd_id
               /\ ReadLog(cmd_id)) =>
                  /\ cmd_id \in ex.limited =>
                        ex'.last.kind \in {"pagination limit", "not found"}
                  /\ ex'.last.kind \in {"lines", "binary"} =>
                        /\ has_log(ex'.logs, cmd_id)
                        /\ the_log(ex'.logs, cmd_id).pagination_count
                              <= MaxPaginationCalls
                  /\ has_log(ex'.logs, cmd_id) =>
                        /\ has_log(ex.logs, cmd_id)
                        /\ the_log(ex'.logs, cmd_id).pagination_count
                              = the_log(ex.logs, cmd_id).pagination_count + 1
        /\ \A cmd_id \in 1..ExMaxCommands :
              (has_log(ex.logs, cmd_id) /\ has_log(ex'.logs, cmd_id)) =>
                  the_log(ex'.logs, cmd_id).pagination_count
                      >= the_log(ex.logs, cmd_id).pagination_count ]_vars

C19_Witness ==
    /\ ex.last.op = "read_log"
    /\ ex.last.cmd_id \in ex.limited
    /\ ex.last.kind = "not found"

\* C20: after any sequence of store, get and list_recent operations at any
\* times the store holds at most max_entries logs, and no log that get or
\* list_recent returns was started more than the TTL before the call.
C20_StoreBoundedAndFresh ==
    /\ Len(ex.logs) <= ExMaxEntries
    /\ \A age \in ex.last.returned : age <= ExTtl

C20_Witness ==
    /\ Len(ex.logs) = ExMaxEntries
    /\ ex.next_id > ExMaxEntries + 1
    /\ ex.now > ExTtl
    /\ ex.last.op = "list_commands"
    /\ Cardinality(ex.last.returned) = 2

\* C16: in a stream whose turn does not end in error, every tool_start event
\* with step id S is followed by exactly one tool_end event with step_id S.
C16_EveryStepEnds ==
    turn.pc = "saved" =>
        \A i \in 1..Len(turn.events) :
            turn.events[i].type = "tool_start" =>
                Cardinality({j \in (i + 1)..Len(turn.events) :
                                /\ turn.events[j].type = "tool_end"
                                /\ turn.events[j].step_id
                                      = turn.events[i].step_id}) = 1

\* C17: a stream carries at most one preview_url event, and it comes before
\* every tool_start event of the stream.
C17_PreviewFirst ==
    /\ Cardinality({i \in 1..Len(turn.events) :
                       turn.events[i].type = "preview_url"}) <= 1
    /\ \A i, j \in 1..Len(turn.events) :
          (/\ turn.events[i].type = "preview_url"
           /\ turn.events[j].type = "tool_start") => i < j

C17_Witness ==
    /\ turn.pc = "saved"
    /\ \E i, j \in 1..Len(turn.events) :
          /\ turn.events[i].type = "preview_url"
          /\ turn.events[j].type = "tool_start"
    /\ \E j \in 1..Len(turn.events) :
          /\ turn.events[j].type = "tool_end"
          /\ turn.events[j].step_id = 2

\* C18: when a turn completes successfully (the assistant message and the
\* status are saved), the session row holds a sandbox_id and a preview_url;
\* this covers the first turn of a session whose sandbox_id was null.
C18_SandboxAndPreviewStored ==
    [][ \A r \in Requests :
          (/\ req[r].pc = "gen_save"
           /\ db_sessions[req[r].sid] # NoRow
           /\ GenSave(r)) =>
              /\ db_sessions'[req[r].sid].sandbox_id # Null
              /\ db_sessions'[req[r].sid].preview_url # Null ]_vars

\* The background processes of the executor that are running: those whose
\* log in the store says so and those whose log has left the store.
RunningBackground ==
    {[cmd_id |-> ex.logs[i].cmd_id, command |-> ex.logs[i].command] :
        i \in {j \in 1..Len(ex.logs) : ex.logs[j].running}} \cup ex.orphans

\* C21: after cleanup_all has returned no background process launched by
\* this executor is running.
C21_CleanupStopsEverything ==
    ex.last.op = "cleanup_all" => RunningBackground = {}

\* C22: when run_background has launched a command, no background process
\* launched earlier with the same first three words is still running.
C22_SimilarTerminatedFirst ==
    (ex.last.op = "run_background" /\ ex.last.spawned) =>
        \A p \in RunningBackground :
            p.cmd_id # ex.last.cmd_id =>
                first_words(p.command) # first_words(ex.last.command)

rank(used, key) == CHOOSE i \in 1..Len(used) : used[i] = key

\* C24: after any sequence of get, set and invalidate the cache holds at most
\* max_entries entries, and an entry that leaves the cache without being
\* invalidated was the least recently read or written of the cached ones.
C24_BoundedAndLru ==
    [][/\ Len(fs'.entries) <= FsMaxEntries
       /\ \A key \in cached_keys(fs.entries) \ cached_keys(fs'.entries) :
             \/ /\ fs'.last.op = "write"
                /\ ~fs'.last.ok
                /\ normalize_path(fs'.last.path) = key
             \/ \A other \in cached_keys(fs.entries) \ {key} :
                   rank(fs.used, key) < rank(fs.used, other)]_vars

\* A read that missed filled the cache and pushed a key out of it.
C24_Witness ==
    /\ Len(fs.entries) = FsMaxEntries
    /\ fs.last.op = "read"
    /\ fs.last.evicted # {}

\* Binary as the specification words it: at least a tenth of the first 1000
\* characters are control characters.
tenth_or_more(text) ==
    LET head == SubSeq(text, 1, IF Len(text) > 1000 THEN 1000 ELSE Len(text))
        non_printable == Cardinality({i \in 1..Len(head) : head[i] = CTRL})
    IN  text # <<>> /\ non_printable * 10 >= Len(head)

\* C25: output of which at least 10% of the first 1000 characters are
\* control characters is never returned as text by run_command, verbose or
\* not: no control character of it is in the output field of the result.
C25_BinaryNeverReturnedAsText ==
    (out.op = "completed"
        /\ tenth_or_more(join(out.log.stdout_lines \o out.log.stderr_lines)))
      => \A i \in 1..Len(out.result.output) : out.result.output[i] # CTRL

\* str.splitlines(): the lines of a text, without their line ends.
RECURSIVE splitlines(_)
splitlines(text) ==
    IF text = <<>> THEN <<>>
    ELSE IF \E i \in 1..Len(text) : text[i] = "\n"
    THEN LET i == CHOOSE i \in 1..Len(text) :
                     text[i] = "\n" /\ \A j \in 1..(i - 1) : text[j] # "\n"
         IN  <<SubSeq(text, 1, i - 1)>> \o splitlines(SubSeq(text, i + 1, Len(text)))
    ELSE <<text>>

OutLines == out.log.stdout_lines \o out.log.stderr_lines

\* A blocking command has completed and printed no control character.
Shaped ==
    /\ out.op = "completed"
    /\ \A i \in 1..Len(OutLines) : \A j \in 1..Len(OutLines[i]) :
          OutLines[i][j] # CTRL

Suppressed == ~out.verbose /\ out.log.exit_code = 0 /\ is_noisy(out.log.command)

\* The number of lines the shaping table lets through.
TableLimit ==
    IF out.verbose THEN Len(OutLines)
    ELSE IF out.log.exit_code = 0 THEN 10 ELSE 40

\* The lines the shaping table selects: the last TableLimit ones.
TableLines ==
    IF Len(OutLines) <= TableLimit THEN OutLines
    ELSE [i \in 1..TableLimit |-> OutLines[Len(OutLines) - TableLimit + i]]

Summary ==
    <<"Completed successfully. [">> \o str(Len(OutLines)) \o <<" lines suppressed]">>

\* C26 (as stated): for a completed, non-binary run_command with N lines the
\* output is exactly the lines of the shaping table (all with verbose; a
\* one-line summary on success of a noisy command; the last 10 on success;
\* the last 40 on failure), total_lines is N, and the hint is there exactly
\* when lines were cut and the output was not suppressed.
C26_ShapingTable ==
    Shaped =>
        /\ out.result.total_lines = Len(OutLines)
        /\ Suppressed => out.result.output = Summary
        /\ ~Suppressed =>
              splitlines(out.result.output) =
                  [i \in 1..Len(TableLines) |-> rstrip(TableLines[i], {"\n"})]
        /\ out.result.hint # NoHint <=>
              (~Suppressed /\ Len(OutLines) > TableLimit)

\* C26 (amended): the same, with the output being the selected lines joined
\* and stripped of trailing white space, so that empty lines at the end of
\* the selection are not in it; the hint counts the selected lines.
C26_ShapingTableTrimmed ==
    Shaped =>
        /\ out.result.total_lines = Len(OutLines)
        /\ Suppressed => out.result.output = Summary
        /\ ~Suppressed =>
              out.result.output = rstrip(join(TableLines), WhiteSpace)
        /\ out.result.hint # NoHint <=>
              (~Suppressed /\ Len(OutLines) > TableLimit)
        /\ out.result.hint # NoHint =>
              out.result.hint = <<TableLimit, Len(OutLines)>>

\* A failed command printed more than 40 lines: the last 40 are returned,
\* with the hint.
C26_Witness ==
    /\ Shaped
    /\ out.log.exit_code # 0
    /\ ~out.verbose
    /\ Len(OutLines) > 40
    /\ Len(splitlines(out.result.output)) = 40
    /\ out.result.hint # NoHint

\* C27: list_commands returns the retained commands most-recent-first, from
\* the most recently started command to the oldest (command ids are handed
\* out in the order of the launches), whatever calls came before it.
C27_MostRecentFirst ==
    ex.last.op = "list_commands" =>
        \A i, j \in 1..Len(ex.last.listed) :
            i < j => ex.last.listed[i] > ex.last.listed[j]

\* 'http://localhost:5173/'
UrlLocal ==
    <<"h", "t", "t", "p", ":", "/", "/", "l", "o", "c", "a", "l", "h", "o",
      "s", "t", ":", "5", "1", "7", "3", "/">>

\* 'http://localhost:3000'
UrlLocalhost ==
    <<"h", "t", "t", "p", ":", "/", "/", "l", "o", "c", "a", "l", "h", "o",
      "s", "t", ":", "3", "0", "0", "0">>

\* 'http://localhost:8000'
UrlLoopback ==
    <<"h", "t", "t", "p", ":", "/", "/", "l", "o", "c", "a", "l", "h", "o",
      "s", "t", ":", "8", "0", "0", "0">>

\* 'http://0.0.0.0:80'
UrlRunningAt ==
    <<"h", "t", "t", "p", ":", "/", "/", "0", ".", "0", ".", "0", ".", "0",
      ":", "8", "0">>

\* 'https://h:1'
UrlRunningOn == <<"h", "t", "t", "p", "s", ":", "/", "/", "h", ":", "1">>

\* 'http://[::]:9'
UrlListening ==
    <<"h", "t", "t", "p", ":", "/", "/", "[", ":", ":", "]", ":", "9">>

\* 'https://y'
UrlLocalLater == <<"h", "t", "t", "p", "s", ":", "/", "/", "y">>

\* 'http://localhost:81'
UrlBothPorts ==
    <<"h", "t", "t", "p", ":", "/", "/", "l", "o", "c", "a", "l", "h", "o",
      "s", "t", ":", "8", "1">>

\* The URL each output is to give, as an Optional: <<>> for none.
ExpectedUrl(text) ==
    CASE text = Outputs.Empty -> <<>>
      [] text = Outputs.Ready -> <<>>
      [] text = Outputs.Local -> <<UrlLocal>>
      [] text = Outputs.Localhost -> <<UrlLocalhost>>
      [] text = Outputs.Loopback -> <<UrlLoopback>>
      [] text = Outputs.RunningAt -> <<UrlRunningAt>>
      [] text = Outputs.RunningOn -> <<UrlRunningOn>>
      [] text = Outputs.Listening -> <<UrlListening>>
      [] text = Outputs.LocalLater -> <<UrlLocalLater>>
      [] text = Outputs.BothPorts -> <<UrlBothPorts>>
      [] text = Outputs.OtherScheme -> <<>>
      [] text = Outputs.NoPort -> <<>>

\* C28: URL detection returns the capture of the first pattern, in the order
\* Local:, http://localhost:port, http://127.0.0.1:port, Server running
\* at/on, listening on, that matches anywhere in the output, a port-only
\* capture expanded to http://localhost:<port>, and none when no pattern
\* matches; the same output gives the same URL when it is seen again.
C28_DetectUrl ==
    det.calls > 0 =>
        /\ det.url = ExpectedUrl(det.initial_output)
        /\ \A b \in {det.before[i] : i \in 1..Len(det.before)} :
              b.initial_output = det.initial_output => b.url = det.url

\* The same output was seen twice; a pattern later in the list matches
\* earlier in it than the one that wins, and the winner captured a port.
C28_Witness ==
    /\ det.initial_output = Outputs.BothPorts
    /\ det.before # <<>>
    /\ det.before[1].initial_output = Outputs.BothPorts
    /\ det.url = <<UrlBothPorts>>

\* C29: destroy(user) on a user with no sandbox returns false and leaves the
\* manager's mapping as it was; on a user with a sandbox it removes the
\* user's mapping (and no other) and returns true, also when the provider's
\* kill raises.
C29_DestroyAnswers ==
    mgr_call.op = "destroy" =>
        IF mgr_call.before[mgr_call.user] = Null
        THEN ~mgr_call.returned /\ mgr_call.after = mgr_call.before
        ELSE /\ mgr_call.returned
             /\ mgr_call.after[mgr_call.user] = Null
             /\ \A u \in Users \ {mgr_call.user} :
                   mgr_call.after[u] = mgr_call.before[u]

\* destroy was called for a user with a sandbox, and the kill raised.
C29_Witness ==
    /\ mgr_call.op = "destroy"
    /\ mgr_call.before[mgr_call.user] # Null
    /\ mgr_call.raised
    /\ mgr_call.returned

\* destroy was called for a user without a sandbox while another user had
\* one.
C29_WitnessNoSandbox ==
    /\ mgr_call.op = "destroy"
    /\ mgr_call.before[mgr_call.user] = Null
    /\ \E u \in Users : mgr_call.before[u] # Null

\* The turn of generator r has committed status = ready (every way to the
\* finally block but the return after a failed sandbox creation does), and
\* the session is busy again with a slot that no subscription has read: a
\* later send_message was accepted and has recorded it.
LaterSlotWaits(r) ==
    /\ req[r].pc = "gen_finally"
    /\ req[r].failed # "sandbox"
    /\ db_sessions[req[r].sid].status = "busy"
    /\ pending[req[r].sid] # NoSlot
    /\ \A other \in Requests \ {r} : req[other].sid # req[r].sid

\* C30: the release of the slot at the end of a subscription never removes a
\* slot recorded by a later accepted send_message: when a new message was
\* accepted after the finishing turn committed status = ready and before its
\* finally block runs, the new message's slot is still there after the
\* finally block, for its own subscription.
C30_FinallyKeepsLaterSlot ==
    [][\A r \in Requests :
          (LaterSlotWaits(r) /\ GenFinally(r))
            => pending'[req[r].sid] = pending[req[r].sid]]_vars

\* C31: once a turn that completes normally has yielded its done event, a
\* send_message to the session is no longer answered 409: the status is not
\* busy any more (and the turn's message is stored).
C31_ReadyAtDone ==
    \A r \in Requests :
        (req[r].kind = "sse" /\ req[r].failed = "none" /\ Dones(req[r]) > 0)
            => SendVerdict(db_sessions[req[r].sid].status).code # 409

\* C32: terminated is absorbing: no step changes the status of a session
\* whose status is terminated.
C32_TerminatedAbsorbing ==
    [][\A s \in SessionIds :
          db_sessions[s].status = "terminated"
              => db_sessions'[s].status = "terminated"]_vars

\* C33: provisioning the sandbox for a message of one session leaves the
\* sandbox recorded in the row of every other session alive.
C33_OtherSessionsKeepSandbox ==
    [][\A r \in Requests :
          (req[r].pc = "gen_start" /\ GenCreateSandbox(r)) =>
              \A s \in AllSessionIds \ {req[r].sid} :
                  db_sessions[s].sandbox_id \in sbx_live
                      => db_sessions[s].sandbox_id \in sbx_live']_vars

\* C34: when the agent raised during a turn, the stream has emitted an error
\* event, and the handler of the exception sets the status to ready and
\* stores a message of the session that records the error; the finally block
\* then releases the slot.
C34_AgentErrorRecorded ==
    [][\A r \in Requests :
          /\ (req[r].pc = "gen_except" /\ req[r].failed = "agent" /\ GenExcept(r))
                => /\ \E i \in 1..Len(req[r].events) : req[r].events[i] = "error"
                   /\ db_sessions'[req[r].sid].status = "ready"
                   /\ Len(db_messages'[req[r].sid]) > Len(db_messages[req[r].sid])
          /\ (req[r].pc = "gen_finally" /\ req[r].failed = "agent" /\ GenFinally(r))
                => pending'[req[r].sid] = NoSlot]_vars

\* C35: the list handed to the agent holds at most the last six stored
\* messages and then the new user message: it has at most seven elements,
\* its last element is the new message, and the new message is in it once.
C35_NewMessageOnceAtEnd ==
    hist.pc = "agent" =>
        /\ Len(hist.messages) <= 6 + 1
        /\ hist.messages[Len(hist.messages)] = HumanMessage(hist.message)
        /\ Cardinality({i \in 1..Len(hist.messages) :
                           hist.messages[i].content = hist.message}) = 1

\* C36: once the pipeline has yielded preview_ready for a tool_end whose
\* result names a preview URL, the last event sent to the subscriber is a
\* preview_ready event.
C36_PreviewReadyDelivered ==
    turn.yielded = "preview_ready" =>
        /\ turn.events # <<>>
        /\ turn.events[Len(turn.events)].type = "preview_ready"

\* The tool_start event of the invocation that the tool_end event at
\* position j ends: tool calls run one after the other, so it is the last
\* tool_start sent before j (0 when there is none).
StartOf(j) ==
    LET starts == {i \in 1..(j - 1) : turn.events[i].type = "tool_start"}
    IN  IF starts = {} THEN 0
        ELSE CHOOSE i \in starts : \A k \in starts : k <= i

RECURSIVE StartsSent(_)
StartsSent(n) ==
    IF n = 0 THEN <<>>
    ELSE IF turn.events[n].type = "tool_start"
         THEN Append(StartsSent(n - 1), n)
         ELSE StartsSent(n - 1)

\* The steps a client rebuilds from the events it saw: one per tool_start,
\* in the order sent, with the id and the title of the event, done when a
\* tool_end event with its id was sent and running otherwise.
FeedSeen ==
    LET starts == StartsSent(Len(turn.events))
    IN  [k \in 1..Len(starts) |->
            [id |-> turn.events[starts[k]].step_id,
             type |-> "tool",
             title |-> turn.events[starts[k]].title,
             status |-> IF \E j \in 1..Len(turn.events) :
                              /\ turn.events[j].type = "tool_end"
                              /\ turn.events[j].step_id
                                    = turn.events[starts[k]].step_id
                        THEN "done" ELSE "running"]]

\* C38: after a turn that completed normally, the steps that list_messages
\* returns for its assistant message are the steps of the tool_start events
\* sent, in the order sent, with ids 1..n and done exactly for those whose
\* tool_end was sent; for a turn without steps the key is None, and without
\* steps and content no message is stored.
C38_StoredStepsReplayFeed ==
    turn.pc = "listed" =>
        /\ \A k \in 1..Len(FeedSeen) : FeedSeen[k].id = k
        /\ IF FeedSeen # <<>>
           THEN /\ turn.stored = json_dumps(FeedSeen)
                /\ turn.listed = FeedSeen
           ELSE IF turn.has_content
           THEN turn.stored = None /\ turn.listed = None
           ELSE turn.stored = NoMessage /\ turn.listed = NoMessage

\* A listed turn with a step that ended and a later one that did not.
C38_Witness ==
    /\ turn.pc = "listed"
    /\ Len(FeedSeen) >= 2
    /\ FeedSeen[1].status = "done"
    /\ FeedSeen[2].status = "running"
    /\ FeedSeen[1].title # FeedSeen[2].title

\* C39: a read that follows a successful write to a path that names another
\* file does not look under the cache key of the write: paths of different
\* files have different cache keys.
C39_SameKeySameFile ==
    (/\ fs.last.op = "read"
     /\ fs.last.follows # <<>>
     /\ Resolve(fs.last.follows[1].path) # Resolve(fs.last.path))
        => normalize_path(fs.last.follows[1].path) # normalize_path(fs.last.path)

\* C40: every CommandLog starts running with exit_code unset and changes at
\* most once, to not running with exit_code set: in every state a log runs
\* exactly when its exit_code is unset, a new log starts running, and a log
\* that is not running keeps is_running and exit_code in every later step,
\* also when terminate and the reader task both write it.
C40_OneTransition ==
    /\ [](life.kind # "none" =>
            (life.is_running <=> life.exit_code = NoExitCode))
    /\ [][/\ life'.cmd_id # life.cmd_id =>
                 life'.is_running /\ life'.exit_code = NoExitCode
          /\ (life'.cmd_id = life.cmd_id /\ life.kind # "none"
                 /\ ~life.is_running) =>
                 /\ ~life'.is_running
                 /\ life'.exit_code = life.exit_code]_vars

\* terminate writes a log that the reader task has completed before it.
C40_Witness ==
    /\ life.term = "finish"
    /\ life.reader = "done"
    /\ ~life.is_running
    /\ life.exit_code = SIGTERM

====
